---------------------------- MODULE Spec2Model ----------------------------
(***************************************************************************)
(* Request admission and content moderation of the Mahjong AI Tutor:       *)
(*   - RateLimiter (security.py): per-client sliding window;               *)
(*   - ContentFilter (content_filter.py): per-client reputation store,     *)
(*     automatic and manual blacklist, two-stage moderation pipeline.      *)
(* Time is an integer clock `now`; text is a sequence of one-character     *)
(* strings, so that upper(), strip() and the `in` substring test are       *)
(* computed rather than assumed.                                           *)
(***************************************************************************)
EXTENDS Integers, Sequences, FiniteSets, TLC

(***************************************************************************)
(* Bounds of the model.                                                    *)
(***************************************************************************)
\* the clock runs over 0..MaxTime
MaxTime == 2
\* at most MaxRequests track_request calls are started, over all clients
MaxRequests == 3
\* ContentFilter(blacklist_threshold=...): the instance parameter, kept small
blacklist_threshold == 2
\* the audit horizon of request_history (24 hours in the code), in clock units
history_window == 1

\* the clock of the rate limiter specifications runs over 0..MaxRateTime
MaxRateTime == 5
\* RateLimiter(max_requests=..., window_seconds=...): the instance parameters, kept small
max_requests == 2
window_seconds == 2
\* the requests security_middleware serves at the same time
NumRequests == 3
\* the threads serving /api/chat, and the filter_content calls they track in all
NumThreads == 2
MaxCalls == 3
\* the clock of the admin surface specification runs over 0..MaxAdminTime
MaxAdminTime == 1

Clients == {"ip1", "ip2"}
Threads == 1..NumThreads

\* the client whose requests the pipeline specification follows
Callers == {"ip1"}

\* the `reason` arguments the admin operations are called with
Reasons == {"Manual blacklist"}

VARIABLES
    now,              \* the wall clock read by datetime.now() / time.time()
    heap,             \* the IPReputation objects allocated so far
    ip_reputations,   \* ContentFilter.ip_reputations: client -> object (0: absent)
    request_history,  \* ContentFilter.request_history: client -> deque of timestamps
    requests,         \* RateLimiter.requests: a dict, client -> deque of timestamps
    admitted,         \* observer: per client, the times of the is_allowed calls admitted
                      \* in the last window_seconds, that is in (now - window_seconds, now]
    mw,               \* security_middleware: per client, the requests awaiting call_next
    th,               \* per thread, where it is in filter_content and its locals
    done,             \* observer: per client, the track_request calls that returned
    result            \* what the last completed call returned

storeVars == <<heap, ip_reputations, request_history>>
rateVars == <<requests, admitted>>
concVars == <<th, done>>
vars == <<now, heap, ip_reputations, request_history, requests, admitted, mw, th, done,
          result>>

(***************************************************************************)
(* Text.                                                                   *)
(***************************************************************************)
\* the letters str.upper() changes
ToUpper ==
    "a" :> "A" @@ "b" :> "B" @@ "c" :> "C" @@ "d" :> "D" @@ "e" :> "E" @@ "f" :> "F"
    @@ "g" :> "G" @@ "h" :> "H" @@ "i" :> "I" @@ "j" :> "J" @@ "k" :> "K" @@ "l" :> "L"
    @@ "m" :> "M" @@ "n" :> "N" @@ "o" :> "O" @@ "p" :> "P" @@ "q" :> "Q" @@ "r" :> "R"
    @@ "s" :> "S" @@ "t" :> "T" @@ "u" :> "U" @@ "v" :> "V" @@ "w" :> "W" @@ "x" :> "X"
    @@ "y" :> "Y" @@ "z" :> "Z"

Whitespace == {" ", "\n", "\t"}

\* str.upper(), one character
UpperChar(ch) == IF ch \in DOMAIN ToUpper THEN ToUpper[ch] ELSE ch

\* str.upper()
upper(s) == [i \in 1..Len(s) |-> UpperChar(s[i])]

\* str.strip(): leading and trailing whitespace removed
strip(s) ==
    LET keep == {i \in 1..Len(s) : s[i] \notin Whitespace}
    IN  IF keep = {} THEN <<>>
        ELSE LET lo == CHOOSE i \in keep : \A j \in keep : i <= j
                 hi == CHOOSE i \in keep : \A j \in keep : j <= i
             IN  SubSeq(s, lo, hi)

\* Python's `p in s` on strings
Contains(p, s) ==
    \E i \in 1..(Len(s) - Len(p) + 1) : SubSeq(s, i, i + Len(p) - 1) = p

SAFE == <<"S","A","F","E">>
UNSAFE == <<"U","N","S","A","F","E">>
RELEVANT == <<"R","E","L","E","V","A","N","T">>
IRRELEVANT == <<"I","R","R","E","L","E","V","A","N","T">>

(***************************************************************************)
(* The reputation store.                                                   *)
(***************************************************************************)
NoTime == -1
NoObject == 0

\* IPReputation(first_seen=t): the dataclass defaults
IPReputation(t) ==
    [bad_requests |-> 0, total_requests |-> 0, first_seen |-> t,
     last_violation |-> NoTime, blacklisted |-> FALSE, blacklist_reason |-> <<>>]

\* `client_ip in self.ip_reputations`
Known(ipr, c) == ipr[c] # NoObject

\* self.ip_reputations[client_ip], in store <<h, ipr>>
RepOf(h, ipr, c) == h[ipr[c]]

Rep(c) == RepOf(heap, ip_reputations, c)

\* mutant: nobody counts as blacklisted
IsBlacklistedIn_Never(h, ipr, c) == FALSE

\* is_ip_blacklisted, in store <<h, ipr>>
IsBlacklistedIn(h, ipr, c) ==
    IF Known(ipr, c) THEN RepOf(h, ipr, c).blacklisted ELSE FALSE

is_ip_blacklisted(c) == IsBlacklistedIn(heap, ip_reputations, c)

\* f"Exceeded {self.blacklist_threshold} violations"
ExceededReason == <<"Exceeded ", ToString(blacklist_threshold), " violations">>

\* the store after `if client_ip not in self.ip_reputations: ... = IPReputation(first_seen=now)`
EnsureRecord(h, ipr, c, t) ==
    IF Known(ipr, c) THEN [heap |-> h, ipr |-> ipr]
    ELSE [heap |-> Append(h, IPReputation(t)),
          ipr  |-> [ipr EXCEPT ![c] = Len(h) + 1]]

\* mutant: the threshold test without `and not rep.blacklisted`
ShouldBlacklist_Again(rep) == rep.bad_requests >= blacklist_threshold

\* mutant: a client is blacklisted one violation early
ShouldBlacklist_Early(rep) ==
    rep.bad_requests >= blacklist_threshold - 1 /\ ~rep.blacklisted

\* mutant: the threshold test off by one
ShouldBlacklist_Late(rep) ==
    rep.bad_requests > blacklist_threshold /\ ~rep.blacklisted

\* `rep.bad_requests >= self.blacklist_threshold and not rep.blacklisted`
ShouldBlacklist(rep) ==
    rep.bad_requests >= blacklist_threshold /\ ~rep.blacklisted

\* mutant: a violation is counted in bad_requests only
Tracked_BadOnly(rep, is_violation, t) ==
    IF is_violation
    THEN [rep EXCEPT !.bad_requests = @ + 1, !.last_violation = t]
    ELSE [rep EXCEPT !.total_requests = @ + 1]

\* the record after the counter updates of track_request
Tracked(rep, is_violation, t) ==
    LET r1 == [rep EXCEPT !.total_requests = @ + 1]
    IN  IF ~is_violation THEN r1
        ELSE LET r2 == [r1 EXCEPT !.bad_requests = @ + 1, !.last_violation = t]
             IN  IF ShouldBlacklist(r2)
                 THEN [r2 EXCEPT !.blacklisted = TRUE,
                                 !.blacklist_reason = ExceededReason]
                 ELSE r2

\* request_history[client_ip].append(now), then popleft() while [0] < now - 24h
RECURSIVE PruneHistory(_, _)
PruneHistory(q, cutoff) ==
    IF q # <<>> /\ Head(q) < cutoff THEN PruneHistory(Tail(q), cutoff) ELSE q

HistoryAfter(q, t) == PruneHistory(Append(q, t), t - history_window)

\* track_request as one call: the store and the history after it
TrackRequest(h, ipr, hist, c, is_violation, t) ==
    LET s == EnsureRecord(h, ipr, c, t)
        o == s.ipr[c]
    IN  [heap |-> [s.heap EXCEPT ![o] = Tracked(@, is_violation, t)],
         ipr  |-> s.ipr,
         hist |-> [hist EXCEPT ![c] = HistoryAfter(@, t)]]

\* the number of track_request calls made so far, over all clients
RECURSIVE SumTotal(_)
SumTotal(h) == IF h = <<>> THEN 0 ELSE Head(h).total_requests + SumTotal(Tail(h))

\* sum(f[x] for x in S)
RECURSIVE Sum(_, _)
Sum(f, S) ==
    IF S = {} THEN 0
    ELSE LET x == CHOOSE y \in S : TRUE IN f[x] + Sum(f, S \ {x})

RECURSIVE Gcd(_, _)
Gcd(a, b) == IF b = 0 THEN a ELSE Gcd(b, a % b)

\* `a / b if b > 0 else 0`: the quotient as a fraction in lowest terms
Rate(a, b) ==
    IF b > 0 THEN [num |-> a \div Gcd(a, b), den |-> b \div Gcd(a, b)]
    ELSE [num |-> 0, den |-> 1]

\* `t.isoformat() if t else None`: the text of a timestamp, <<>> for None
IsoFormat(t) == IF t = NoTime THEN <<>> ELSE <<"iso", t>>

\* the keys of self.ip_reputations
Tracked_ips(ipr) == {c \in DOMAIN ipr : Known(ipr, c)}

\* ContentFilter.get_ip_stats(client_ip), in store <<h, ipr>>
GetIpStats(h, ipr, c) ==
    IF ~Known(ipr, c) THEN [status |-> "new", requests |-> 0, violations |-> 0]
    ELSE LET rep == RepOf(h, ipr, c)
         IN  [status |-> IF rep.blacklisted THEN "blacklisted" ELSE "active",
              total_requests |-> rep.total_requests,
              bad_requests |-> rep.bad_requests,
              violation_rate |-> Rate(rep.bad_requests, rep.total_requests),
              first_seen |-> IsoFormat(rep.first_seen),
              last_violation |-> IsoFormat(rep.last_violation),
              blacklisted |-> rep.blacklisted,
              blacklist_reason |-> rep.blacklist_reason]

\* ContentFilter.get_system_stats(), in store <<h, ipr>>
GetSystemStats(h, ipr) ==
    LET ips == Tracked_ips(ipr)
        total_requests == Sum([c \in ips |-> RepOf(h, ipr, c).total_requests], ips)
        total_violations == Sum([c \in ips |-> RepOf(h, ipr, c).bad_requests], ips)
    IN  [total_ips_tracked |-> Cardinality(ips),
         blacklisted_ips |-> Cardinality({c \in ips : RepOf(h, ipr, c).blacklisted}),
         total_requests |-> total_requests,
         total_violations |-> total_violations,
         violation_rate |-> Rate(total_violations, total_requests),
         blacklist_threshold |-> blacklist_threshold]

\* mutant: every tracked client is exported
ExportBlacklist_All(h, ipr) ==
    [c \in Tracked_ips(ipr) |-> RepOf(h, ipr, c)]

\* ContentFilter.export_blacklist(), in store <<h, ipr>>: ip -> asdict(rep)
ExportBlacklist(h, ipr) ==
    [c \in {d \in Tracked_ips(ipr) : RepOf(h, ipr, d).blacklisted} |-> RepOf(h, ipr, c)]

(***************************************************************************)
(* The rate limiter.                                                       *)
(***************************************************************************)
\* mutant: every lookup finds a fresh deque
WindowOf_Fresh(reqs, c) == <<>>

\* client_requests = self.requests[client_ip], of a defaultdict(deque)
WindowOf(reqs, c) == IF c \in DOMAIN reqs THEN reqs[c] ELSE <<>>

\* mutant: an entry exactly window_seconds old is kept
RECURSIVE Prune_Strict(_, _)
Prune_Strict(q, cutoff) ==
    IF q # <<>> /\ Head(q) < cutoff THEN Prune_Strict(Tail(q), cutoff) ELSE q

\* while client_requests and client_requests[0] <= now - window_seconds: popleft()
RECURSIVE Prune(_, _)
Prune(q, cutoff) ==
    IF q # <<>> /\ Head(q) <= cutoff THEN Prune(Tail(q), cutoff) ELSE q

\* mutant: the limit test off by one
AtLimit_Late(q) == Len(q) > max_requests

\* len(client_requests) >= self.max_requests
AtLimit(q) == Len(q) >= max_requests

\* mutant: the expired entries are never removed
IsAllowed_NoPrune(q, t) ==
    IF AtLimit(q) THEN [window |-> q, allowed |-> FALSE]
    ELSE [window |-> Append(q, t), allowed |-> TRUE]

\* mutant: a rejected call is recorded too
IsAllowed_RecordsAll(q, t) ==
    LET p == Prune(q, t - window_seconds)
    IN  [window |-> Append(p, t), allowed |-> ~AtLimit(p)]

\* RateLimiter.is_allowed on window q at time t: the window after it, and what it returns
IsAllowed(q, t) ==
    LET p == Prune(q, t - window_seconds)
    IN  IF AtLimit(p) THEN [window |-> p, allowed |-> FALSE]
        ELSE [window |-> Append(p, t), allowed |-> TRUE]

\* mutant: one deque is shared by all the clients
RateAfter_Shared(reqs, adm, c, t) ==
    LET a == IsAllowed(WindowOf(reqs, c), t)
    IN  [requests |-> [d \in Clients |-> a.window],
         admitted |-> IF a.allowed THEN [adm EXCEPT ![c] = Append(@, t)] ELSE adm,
         allowed  |-> a.allowed]

\* the rate limiter after is_allowed(c) at time t
RateAfter(reqs, adm, c, t) ==
    LET a == IsAllowed(WindowOf(reqs, c), t)
    IN  [requests |-> (c :> a.window) @@ reqs,
         admitted |-> IF a.allowed THEN [adm EXCEPT ![c] = Append(@, t)] ELSE adm,
         allowed  |-> a.allowed]

(***************************************************************************)
(* The classifier and the two moderation stages.                           *)
(***************************************************************************)
\* response.usage is None
NoUsage == -1

\* what the classifier call raises: a timeout, a response without content, ...
Errors == {"timeout", "malformed response"}

\* a response of groq_client.chat.completions.create, and an exception raised by it
Answer(content, usage) == [kind |-> "ok", content |-> content, usage |-> usage]
Raise(e) == [kind |-> "raise", error |-> e]

SafetyResponses ==
    { Answer(SAFE, 3), Answer(UNSAFE, 3),
      Answer(<<" ","s","a","f","e","\n">>, NoUsage),
      Answer(<<"u","n","s","a","f","e">>, 3),
      Answer(<<"M","a","y","b","e">>, 3) }
        \cup {Raise(e) : e \in Errors}

RelevanceResponses ==
    { Answer(RELEVANT, 3), Answer(IRRELEVANT, 3),
      Answer(<<"r","e","l","e","v","a","n","t"," ">>, NoUsage),
      Answer(<<"I","r","r","e","l","e","v","a","n","t">>, 3),
      Answer(<<"N","o">>, 3) }
        \cup {Raise(e) : e \in Errors}

\* FilterResult(allowed, reason, confidence, filter_stage, tokens_used);
\* confidence in tenths
FilterResult(allowed, reason, confidence, stage, tokens) ==
    [allowed |-> allowed, reason |-> reason, confidence |-> confidence,
     filter_stage |-> stage, tokens_used |-> tokens]

\* mutant: the reported usage is dropped
TokensOf_Dropped(resp) == 0

\* response.usage.total_tokens if response.usage else 0
TokensOf(resp) == IF resp.usage = NoUsage THEN 0 ELSE resp.usage

\* mutant: the safety stage fails open
SafetyError_Open(resp) ==
    FilterResult(TRUE, <<"Safety check error (allowed): ", resp.error>>, 0, "safety", 0)

\* the except branch of check_safety: fail closed
SafetyError(resp) ==
    FilterResult(FALSE, <<"Safety check error: ", resp.error>>, 0, "safety", 0)

\* mutant: an answer that does not say UNSAFE passes the safety stage
check_safety_Lenient(resp) ==
    IF resp.kind = "raise" THEN SafetyError(resp)
    ELSE LET res == upper(strip(resp.content))
             is_safe == ~Contains(UNSAFE, res)
         IN  FilterResult(is_safe,
                 IF ~is_safe THEN <<"Safety check failed">> ELSE <<"Passed safety check">>,
                 IF Contains(SAFE, res) \/ Contains(UNSAFE, res) THEN 9 ELSE 5,
                 "safety", TokensOf(resp))

\* ContentFilter.check_safety
check_safety(resp) ==
    IF resp.kind = "raise" THEN SafetyError(resp)
    ELSE LET res == upper(strip(resp.content))
             is_safe == Contains(SAFE, res)
         IN  FilterResult(is_safe,
                 IF ~is_safe THEN <<"Safety check failed">> ELSE <<"Passed safety check">>,
                 IF Contains(SAFE, res) \/ Contains(UNSAFE, res) THEN 9 ELSE 5,
                 "safety", TokensOf(resp))

\* mutant: the relevance stage fails closed
RelevanceError_Closed(resp) ==
    FilterResult(FALSE, <<"Relevance check error: ", resp.error>>, 0, "relevance", 0)

\* the except branch of check_mahjong_relevance: fail open
RelevanceError(resp) ==
    FilterResult(TRUE, <<"Relevance check error (allowed): ", resp.error>>, 0,
                 "relevance", 0)

\* ContentFilter.check_mahjong_relevance
check_mahjong_relevance(resp) ==
    IF resp.kind = "raise" THEN RelevanceError(resp)
    ELSE LET res == upper(strip(resp.content))
             is_relevant == Contains(RELEVANT, res)
         IN  FilterResult(is_relevant,
                 IF ~is_relevant THEN <<"Not Mahjong-related">> ELSE <<"Mahjong-related content">>,
                 IF Contains(RELEVANT, res) \/ Contains(IRRELEVANT, res) THEN 9 ELSE 5,
                 "relevance", TokensOf(resp))

\* mutant: the pipeline goes on to the relevance stage whatever the safety verdict
SafetyVerdict_AllPass ==
    [s \in SafetyResponses |-> [check_safety(s) EXCEPT !.allowed = TRUE]]

\* the two stages' verdicts, tabulated over the classifier's responses
SafetyVerdict == [s \in SafetyResponses |-> check_safety(s)]
RelevanceVerdict == [r \in RelevanceResponses |-> check_mahjong_relevance(r)]

Min(a, b) == IF a <= b THEN a ELSE b

\* the lines a stage writes with logger.error when its classifier call raised
StageLog(stage, resp) ==
    IF resp.kind = "raise" THEN <<stage \o " check failed">> ELSE <<>>

\* the line track_request writes when it blacklists the client
TrackLog(h, ipr, c, is_violation) ==
    IF is_violation /\ ~IsBlacklistedIn(h, ipr, c)
       /\ (IF Known(ipr, c) THEN RepOf(h, ipr, c).bad_requests ELSE 0) + 1
              >= blacklist_threshold
    THEN <<"IP blacklisted">> ELSE <<>>

\* mutant: a request rejected because the safety classifier raised is tracked as
\* no violation
FilterContent_ErrorsUncounted(h, ipr, hist, c, s, r, t) ==
    LET same == [heap |-> h, ipr |-> ipr, hist |-> hist]
        safety_result == SafetyVerdict[s]
        relevance_result == RelevanceVerdict[r]
    IN  IF IsBlacklistedIn(h, ipr, c)
        THEN [store |-> same, allowed |-> FALSE,
              verdict |-> FilterResult(FALSE, <<"IP blacklisted">>, 10, "blacklist", 0),
              calls |-> <<>>,
              log |-> <<"Blocked request from blacklisted IP">>]
        ELSE IF ~safety_result.allowed
        THEN [store |-> TrackRequest(h, ipr, hist, c, s.kind # "raise", t),
              allowed |-> FALSE, verdict |-> safety_result,
              calls |-> <<"safety", "track_request(violation)">>,
              log |-> StageLog("Safety", s) \o TrackLog(h, ipr, c, TRUE)
                        \o <<"Safety violation">>]
        ELSE IF ~relevance_result.allowed
        THEN [store |-> TrackRequest(h, ipr, hist, c, TRUE, t), allowed |-> FALSE,
              verdict |-> relevance_result,
              calls |-> <<"safety", "relevance", "track_request(violation)">>,
              log |-> StageLog("Safety", s) \o StageLog("Relevance", r)
                        \o TrackLog(h, ipr, c, TRUE) \o <<"Irrelevant content">>]
        ELSE [store |-> TrackRequest(h, ipr, hist, c, FALSE, t), allowed |-> TRUE,
              verdict |-> FilterResult(TRUE, <<"Passed all content filters">>,
                              Min(safety_result.confidence, relevance_result.confidence),
                              "complete",
                              safety_result.tokens_used + relevance_result.tokens_used),
              calls |-> <<"safety", "relevance", "track_request(clean)">>,
              log |-> StageLog("Safety", s) \o StageLog("Relevance", r)]

\* ContentFilter.filter_content on store <<h, ipr, hist>> at time t, the safety
\* classifier answering s and the relevance classifier r: the store after it, the
\* pair it returns, the calls it made and the lines it logged
FilterContent(h, ipr, hist, c, s, r, t) ==
    LET same == [heap |-> h, ipr |-> ipr, hist |-> hist]
        safety_result == SafetyVerdict[s]
        relevance_result == RelevanceVerdict[r]
    IN  IF IsBlacklistedIn(h, ipr, c)
        THEN [store |-> same, allowed |-> FALSE,
              verdict |-> FilterResult(FALSE, <<"IP blacklisted">>, 10, "blacklist", 0),
              calls |-> <<>>,
              log |-> <<"Blocked request from blacklisted IP">>]
        ELSE IF ~safety_result.allowed
        THEN [store |-> TrackRequest(h, ipr, hist, c, TRUE, t), allowed |-> FALSE,
              verdict |-> safety_result,
              calls |-> <<"safety", "track_request(violation)">>,
              log |-> StageLog("Safety", s) \o TrackLog(h, ipr, c, TRUE)
                        \o <<"Safety violation">>]
        ELSE IF ~relevance_result.allowed
        THEN [store |-> TrackRequest(h, ipr, hist, c, TRUE, t), allowed |-> FALSE,
              verdict |-> relevance_result,
              calls |-> <<"safety", "relevance", "track_request(violation)">>,
              log |-> StageLog("Safety", s) \o StageLog("Relevance", r)
                        \o TrackLog(h, ipr, c, TRUE) \o <<"Irrelevant content">>]
        ELSE [store |-> TrackRequest(h, ipr, hist, c, FALSE, t), allowed |-> TRUE,
              verdict |-> FilterResult(TRUE, <<"Passed all content filters">>,
                              Min(safety_result.confidence, relevance_result.confidence),
                              "complete",
                              safety_result.tokens_used + relevance_result.tokens_used),
              calls |-> <<"safety", "relevance", "track_request(clean)">>,
              log |-> StageLog("Safety", s) \o StageLog("Relevance", r)]

(***************************************************************************)
(* The calls, each one step: the store API (Spec) and the pipeline         *)
(* (SpecFilter), called one after the other.                               *)
(***************************************************************************)
NoResult == [op |-> "none"]

\* a thread that is not inside filter_content
NoCall == [pc |-> "idle"]

Init ==
    /\ now = 0
    /\ heap = <<>>
    /\ ip_reputations = [c \in Clients |-> NoObject]
    /\ request_history = [c \in Clients |-> <<>>]
    /\ requests = <<>>
    /\ admitted = [c \in Clients |-> <<>>]
    /\ mw = [c \in Clients |-> 0]
    /\ th = [t \in Threads |-> NoCall]
    /\ done = [c \in Clients |-> [calls |-> 0, violations |-> 0]]
    /\ result = NoResult

\* the clock advances between calls
Advance(limit) ==
    /\ now < limit
    /\ now' = now + 1
    /\ admitted' = [c \in Clients |->
                       SelectSeq(admitted[c], LAMBDA x : x > now' - window_seconds)]
    /\ UNCHANGED <<storeVars, requests, mw, concVars, result>>

Tick == Advance(MaxTime)

\* ContentFilter.track_request(client_ip, is_violation)
track_request(c, is_violation) ==
    /\ SumTotal(heap) < MaxRequests
    /\ LET s == TrackRequest(heap, ip_reputations, request_history, c, is_violation, now)
       IN  /\ heap' = s.heap
           /\ ip_reputations' = s.ipr
           /\ request_history' = s.hist
    /\ result' = [op |-> "track_request", ip |-> c, is_violation |-> is_violation]
    /\ UNCHANGED <<now, rateVars, mw, concVars>>

\* ContentFilter.manually_blacklist_ip(client_ip, reason)
manually_blacklist_ip(c, reason) ==
    /\ LET s == EnsureRecord(heap, ip_reputations, c, now)
           o == s.ipr[c]
       IN  /\ heap' = [s.heap EXCEPT ![o] =
                          [@ EXCEPT !.blacklisted = TRUE,
                                    !.blacklist_reason = <<reason>>]]
           /\ ip_reputations' = s.ipr
    /\ result' = [op |-> "manually_blacklist_ip", ip |-> c]
    /\ UNCHANGED <<now, request_history, rateVars, mw, concVars>>

\* mutant: the flag is cleared and the reason left as it was
unblacklist_ip_FlagOnly(c, reason) ==
    /\ IF Known(ip_reputations, c)
       THEN heap' = [heap EXCEPT ![ip_reputations[c]] = [@ EXCEPT !.blacklisted = FALSE]]
       ELSE heap' = heap
    /\ result' = [op |-> "unblacklist_ip", ip |-> c]
    /\ UNCHANGED <<now, ip_reputations, request_history, rateVars, mw, concVars>>

\* mutant: the violations counted so far are forgiven with the flag
unblacklist_ip_Resetting(c, reason) ==
    /\ IF Known(ip_reputations, c)
       THEN heap' = [heap EXCEPT ![ip_reputations[c]] =
                        [@ EXCEPT !.blacklisted = FALSE,
                                  !.bad_requests = 0,
                                  !.blacklist_reason = <<"Unblacklisted: ", reason>>]]
       ELSE heap' = heap
    /\ result' = [op |-> "unblacklist_ip", ip |-> c]
    /\ UNCHANGED <<now, ip_reputations, request_history, rateVars, mw, concVars>>

\* ContentFilter.unblacklist_ip(client_ip, reason)
unblacklist_ip(c, reason) ==
    /\ IF Known(ip_reputations, c)
       THEN heap' = [heap EXCEPT ![ip_reputations[c]] =
                        [@ EXCEPT !.blacklisted = FALSE,
                                  !.blacklist_reason = <<"Unblacklisted: ", reason>>]]
       ELSE heap' = heap
    /\ result' = [op |-> "unblacklist_ip", ip |-> c]
    /\ UNCHANGED <<now, ip_reputations, request_history, rateVars, mw, concVars>>

\* ContentFilter.filter_content(message, client_ip), the classifiers answering s and r
filter_content(c, s, r) ==
    /\ is_ip_blacklisted(c) \/ SumTotal(heap) < MaxRequests
    /\ LET f == FilterContent(heap, ip_reputations, request_history, c, s, r, now)
       IN  /\ heap' = f.store.heap
           /\ ip_reputations' = f.store.ipr
           /\ request_history' = f.store.hist
           /\ result' = [op |-> "filter_content", ip |-> c, allowed |-> f.allowed,
                         verdict |-> f.verdict, calls |-> f.calls, log |-> f.log]
    /\ UNCHANGED <<now, rateVars, mw, concVars>>

Next ==
    \/ Tick
    \/ \E c \in Clients, v \in BOOLEAN : track_request(c, v)
    \/ \E c \in Clients, r \in Reasons : manually_blacklist_ip(c, r)
    \/ \E c \in Clients, r \in Reasons : unblacklist_ip(c, r)

Spec == Init /\ [][Next]_vars

\* a read operation returns value; it writes nothing (the result also keeps the
\* store the call found)
Read(op, c, value) ==
    /\ result' = [op |-> op, ip |-> c, value |-> value, found |-> storeVars]
    /\ UNCHANGED <<now, storeVars, rateVars, mw, concVars>>

\* mutant: the lookup inserts a record for an unseen client, as a defaultdict would
get_ip_stats_Inserting(c) ==
    /\ heap' = EnsureRecord(heap, ip_reputations, c, now).heap
    /\ ip_reputations' = EnsureRecord(heap, ip_reputations, c, now).ipr
    /\ result' = [op |-> "get_ip_stats", ip |-> c,
                  value |-> GetIpStats(heap, ip_reputations, c), found |-> storeVars]
    /\ UNCHANGED <<now, request_history, rateVars, mw, concVars>>

\* ContentFilter.get_ip_stats(client_ip)
get_ip_stats(c) == Read("get_ip_stats", c, GetIpStats(heap, ip_reputations, c))

\* ContentFilter.get_system_stats()
get_system_stats == Read("get_system_stats", "all", GetSystemStats(heap, ip_reputations))

\* ContentFilter.export_blacklist()
export_blacklist == Read("export_blacklist", "all", ExportBlacklist(heap, ip_reputations))

\* ContentFilter.is_ip_blacklisted(client_ip), called on its own
is_ip_blacklisted_call(c) == Read("is_ip_blacklisted", c, is_ip_blacklisted(c))

TickAdmin == Advance(MaxAdminTime)

\* the admin surface: the store API with its read operations
NextAdmin ==
    \/ TickAdmin
    \/ \E c \in Clients, v \in BOOLEAN : track_request(c, v)
    \/ \E c \in Clients, r \in Reasons : manually_blacklist_ip(c, r)
    \/ \E c \in Clients, r \in Reasons : unblacklist_ip(c, r)
    \/ \E c \in Clients : get_ip_stats(c)
    \/ get_system_stats
    \/ export_blacklist
    \/ \E c \in Clients : is_ip_blacklisted_call(c)

SpecAdmin == Init /\ [][NextAdmin]_vars

\* track_request alone: a run with no manual blacklist or unblacklist call
NextTrack ==
    \/ Tick
    \/ \E c \in Clients, v \in BOOLEAN : track_request(c, v)

SpecTrack == Init /\ [][NextTrack]_vars

NextFilter ==
    \/ Tick
    \/ \E c \in Callers, s \in SafetyResponses, r \in RelevanceResponses :
           filter_content(c, s, r)
    \/ \E c \in Callers, r \in Reasons : manually_blacklist_ip(c, r)
    \/ \E c \in Callers, r \in Reasons : unblacklist_ip(c, r)

SpecFilter == Init /\ [][NextFilter]_vars

(***************************************************************************)
(* The rate limiter called directly, one call after the other (SpecRate).  *)
(***************************************************************************)
TickRate == Advance(MaxRateTime)

\* mutant: a rejection by the rate limiter is tracked as a violation of the client
is_allowed_Penalising(c) ==
    /\ LET a == RateAfter(requests, admitted, c, now)
           w == WindowOf(requests, c)
           s == IF a.allowed
                THEN [heap |-> heap, ipr |-> ip_reputations, hist |-> request_history]
                ELSE TrackRequest(heap, ip_reputations, request_history, c, TRUE, now)
       IN  /\ requests' = a.requests
           /\ admitted' = a.admitted
           /\ heap' = s.heap
           /\ ip_reputations' = s.ipr
           /\ request_history' = s.hist
           /\ result' = [op |-> "is_allowed", ip |-> c, allowed |-> a.allowed,
                         at |-> now, held |-> Len(w),
                         oldest |-> IF w = <<>> THEN NoTime ELSE Head(w)]
    /\ UNCHANGED <<now, mw, concVars>>

\* RateLimiter.is_allowed(client_ip); the result also tells how many entries the
\* window held when the call began, and the oldest of them
is_allowed(c) ==
    /\ LET a == RateAfter(requests, admitted, c, now)
           w == WindowOf(requests, c)
       IN  /\ requests' = a.requests
           /\ admitted' = a.admitted
           /\ result' = [op |-> "is_allowed", ip |-> c, allowed |-> a.allowed,
                         at |-> now, held |-> Len(w),
                         oldest |-> IF w = <<>> THEN NoTime ELSE Head(w)]
    /\ UNCHANGED <<now, storeVars, mw, concVars>>

NextRate ==
    \/ TickRate
    \/ \E c \in Clients : is_allowed(c)

SpecRate == Init /\ [][NextRate]_vars

(***************************************************************************)
(* security_middleware on the event loop (SpecMw): a request runs without  *)
(* interruption up to `await call_next(request)`, where the other requests *)
(* in flight take their turns.                                             *)
(***************************************************************************)
\* re.IGNORECASE: text and pattern are compared with the letters folded
RECURSIVE Fold(_)
Fold(s) == IF Len(s) = 0 THEN "" ELSE UpperChar(SubSeq(s, 1, 1)) \o Fold(SubSeq(s, 2, Len(s)))

\* regular expressions, as far as the catalogue uses them: a literal, a character
\* class, an alternation, a concatenation, r+, r? and $
Lit(s) == [t |-> "lit", s |-> s]
Class(cs) == [t |-> "class", cs |-> cs]
Alt(rs) == [t |-> "alt", rs |-> rs]
Cat(rs) == [t |-> "cat", rs |-> rs]
Plus(r) == [t |-> "plus", r |-> r]
Opt(r) == [t |-> "opt", r |-> r]
Eos == [t |-> "eos"]

\* (w1|w2|...)
Words(ws) == Alt([i \in 1..Len(ws) |-> Lit(ws[i])])

\* the positions where a match of r that starts at position i of s can end (the
\* position after its last character), s folded
RECURSIVE Ends(_, _, _)
Ends(r, s, i) ==
    CASE r.t = "lit" ->
            IF i + Len(r.s) - 1 <= Len(s) /\ SubSeq(s, i, i + Len(r.s) - 1) = Fold(r.s)
            THEN {i + Len(r.s)} ELSE {}
      [] r.t = "class" ->
            IF i <= Len(s) /\ SubSeq(s, i, i) \in r.cs THEN {i + 1} ELSE {}
      [] r.t = "alt" -> UNION {Ends(r.rs[k], s, i) : k \in 1..Len(r.rs)}
      [] r.t = "cat" ->
            IF Len(r.rs) = 0 THEN {i}
            ELSE UNION {Ends(Cat(Tail(r.rs)), s, j) : j \in Ends(Head(r.rs), s, i)}
      [] r.t = "plus" ->
            Ends(r.r, s, i) \cup UNION {Ends(r, s, j) : j \in Ends(r.r, s, i) \ {i}}
      [] r.t = "opt" -> {i} \cup Ends(r.r, s, i)
      [] r.t = "eos" -> IF i = Len(s) + 1 THEN {i} ELSE {}

\* pattern.search(text), the pattern compiled with re.IGNORECASE
Search(r, text) == \E i \in 1..(Len(text) + 1) : Ends(r, Fold(text), i) # {}

\* \s and [0-9]
Space == Class({" ", "\t", "\n", "\r"})
Digit == Class({"0", "1", "2", "3", "4", "5", "6", "7", "8", "9"})

\* MALICIOUS_PATTERNS, in the order of the list
MALICIOUS_PATTERNS ==
    << Cat(<<Lit("/"), Words(<<"admin", "administrator", "rdp", "remote", "desktop">>)>>),
       Lit("/mstsc"),
       Cat(<<Lit("/"), Words(<<"login", "signin", "auth">>), Lit(".php")>>),
       Cat(<<Lit("/"), Words(<<"wiki", "mediawiki", "wordpress", "wp-admin", "wp-login">>)>>),
       Lit("/phpMyAdmin"),
       Lit("/phpmyadmin"),
       Lit("/.env"),
       Cat(<<Lit("/config."), Words(<<"php", "json", "yml", "yaml">>)>>),
       Cat(<<Lit("/"), Words(<<"backup", "backups", "dump", "sql">>)>>),
       Cat(<<Lit("/."), Words(<<"git", "svn", "hg">>), Lit("/")>>),
       Lit(".."),
       Lit("%2e%2e"),
       Cat(<<Lit("/"), Plus(Lit("/"))>>),
       Lit("<script"),
       Lit("javascript:"),
       Lit("vbscript:"),
       Cat(<<Words(<<"eval", "exec", "system">>), Lit("(")>>),
       Cat(<<Words(<<"union", "select", "insert", "update", "delete", "drop">>), Plus(Space),
             Opt(Cat(<<Lit("all"), Plus(Space)>>)), Words(<<"select", "from", "where">>)>>),
       \* (the backquote alternative of this pattern is left out: the character
       \* cannot be written in a string here, and no request below contains it)
       Words(<<"|", "&", ";", "$(">>),
       Cat(<<Lit("/"), Words(<<"etc/passwd", "proc/version", "windows/system32">>)>>),
       Cat(<<Lit("."), Words(<<"php", "asp", "jsp", "py", "pl", "cgi">>), Lit("?")>>),
       Cat(<<Lit("/"), Words(<<"robots.txt", "sitemap.xml">>), Eos>>),
       Cat(<<Lit("/."), Words(<<"well-known", "htaccess", "htpasswd">>)>>),
       Cat(<<Lit("/"), Words(<<"wp-content", "wp-includes", "drupal", "joomla">>)>>),
       Cat(<<Lit("/"), Words(<<"cgi-bin", "bin/sh", "usr/bin">>)>>),
       Cat(<<Lit("/"), Words(<<"soap", "xmlrpc", "rpc2", "rpc">>)>>),
       Cat(<<Lit("/"), Opt(Cat(<<Lit("api/v"), Plus(Digit), Lit("/")>>)),
             Words(<<"user", "users", "admin", "login", "auth", "token">>)>>) >>

\* bot_patterns of is_malicious_request
bot_patterns ==
    << Words(<<"sqlmap", "nikto", "nmap", "masscan", "zmap">>),
       Words(<<"gobuster", "dirb", "dirbuster", "wfuzz">>),
       Words(<<"burp", "owasp", "zaproxy">>),
       Words(<<"python-requests/", "curl/", "wget/">>) >>

\* `for pattern in patterns: if pattern.search(text)` finds a match
AnyMatch(patterns, text) == \E k \in 1..Len(patterns) : Search(patterns[k], text)

\* mutant: the user agent is looked at first, then the path, then the query
is_malicious_request_AgentFirst(path, user_agent, query_params) ==
    IF user_agent # "" /\ AnyMatch(bot_patterns, user_agent)
    THEN [is_malicious |-> TRUE, reason |-> <<"Suspicious user agent: ", user_agent>>]
    ELSE IF AnyMatch(MALICIOUS_PATTERNS, path)
    THEN [is_malicious |-> TRUE, reason |-> <<"Malicious path pattern detected: ", path>>]
    ELSE IF query_params # "" /\ AnyMatch(MALICIOUS_PATTERNS, query_params)
    THEN [is_malicious |-> TRUE,
          reason |-> <<"Malicious query parameter detected: ", query_params>>]
    ELSE [is_malicious |-> FALSE, reason |-> <<"">>]

\* is_malicious_request(path, user_agent, query_params): (is_malicious, reason)
is_malicious_request(path, user_agent, query_params) ==
    IF AnyMatch(MALICIOUS_PATTERNS, path)
    THEN [is_malicious |-> TRUE, reason |-> <<"Malicious path pattern detected: ", path>>]
    ELSE IF query_params # "" /\ AnyMatch(MALICIOUS_PATTERNS, query_params)
    THEN [is_malicious |-> TRUE,
          reason |-> <<"Malicious query parameter detected: ", query_params>>]
    ELSE IF user_agent # "" /\ AnyMatch(bot_patterns, user_agent)
    THEN [is_malicious |-> TRUE, reason |-> <<"Suspicious user agent: ", user_agent>>]
    ELSE [is_malicious |-> FALSE, reason |-> <<"">>]

\* `path in ["/", "/api/chat", "/api/health", "/api/models", "/favicon.ico"]`
AllowList == {"/", "/api/chat", "/api/health", "/api/models", "/favicon.ico"}

\* what the middleware finds out about the path, the query and the user agent:
\* `path in [...]` (the allow-list), is_malicious_request(...) true, or neither
PathKinds == {"allow-listed", "malicious", "other"}

\* the number of requests in flight
RECURSIVE InFlight(_, _)
InFlight(f, S) ==
    IF S = {} THEN 0
    ELSE LET x == CHOOSE y \in S : TRUE IN f[x] + InFlight(f, S \ {x})

\* a request as the middleware reads it: request.url.path, request.url.query and
\* the User-Agent header
Req(path, query, user_agent) == [path |-> path, query |-> query, user_agent |-> user_agent]

\* the requests of the model: the chat endpoint plain and with a hostile query and
\* user agent, a scanner's probe, and a static file plain, with a query of two
\* parameters and fetched by a script
Requests ==
    {Req("/api/chat", "", "Mozilla/5.0"),
     Req("/api/chat", "q=<script>", "sqlmap/1.0"),
     Req("/wp-admin/install.php", "", "Mozilla/5.0"),
     Req("/static/app.js", "", "Mozilla/5.0"),
     Req("/static/app.js", "a=1&b=2", "Mozilla/5.0"),
     Req("/static/app.js", "", "curl/8.0")}

\* one request for each branch of the middleware
Probes ==
    {Req("/api/chat", "", "Mozilla/5.0"),
     Req("/wp-admin/install.php", "", "Mozilla/5.0"),
     Req("/static/app.js", "", "Mozilla/5.0")}

\* mutant: the patterns are evaluated before the allow-list is looked at
KindOf_GateFirst(q) ==
    IF is_malicious_request(q.path, q.user_agent, q.query).is_malicious THEN "malicious"
    ELSE IF q.path \in AllowList THEN "allow-listed"
    ELSE "other"

\* the branch security_middleware takes for request q
KindOf(q) ==
    IF q.path \in AllowList THEN "allow-listed"
    ELSE IF is_malicious_request(q.path, q.user_agent, q.query).is_malicious
    THEN "malicious"
    ELSE "other"

\* the unexpired entries of the window of client c
Unexpired(c) == Prune(WindowOf(requests, c), now - window_seconds)

\* mutant: the rate limiter runs before the patterns are evaluated
Dispatch_LimiterFirst(c, q, kind) ==
    /\ InFlight(mw, Clients) < NumRequests
    /\ LET a == RateAfter(requests, admitted, c, now)
       IN  /\ requests' = a.requests
           /\ admitted' = a.admitted
           /\ mw' = IF a.allowed /\ kind # "malicious" THEN [mw EXCEPT ![c] = @ + 1] ELSE mw
           /\ result' = [op |-> "security_middleware", ip |-> c, request |-> q,
                         kind |-> kind, forwarded |-> a.allowed /\ kind # "malicious",
                         status |-> IF ~a.allowed THEN 429
                                    ELSE IF kind = "malicious" THEN 404 ELSE 200,
                         held |-> Len(Unexpired(c)),
                         counted |-> WindowOf(a.requests, c) = Append(Unexpired(c), now),
                         found |-> WindowOf(requests, c)]
    /\ UNCHANGED <<now, storeVars, concVars>>

\* security_middleware up to its first await, for request q of client c, taking
\* the branch kind: it returns 404 or 429 there, or awaits call_next (status 200
\* stands for the response of call_next).  The result also tells how many unexpired
\* entries the window held, whether the call appended the request to it, and for
\* a request turned away with 404 the window the call found.
Dispatch(c, q, kind) ==
    /\ InFlight(mw, Clients) < NumRequests
    /\ IF kind = "malicious"
       THEN /\ result' = [op |-> "security_middleware", ip |-> c, request |-> q,
                          kind |-> kind, forwarded |-> FALSE, status |-> 404,
                          held |-> Len(Unexpired(c)), counted |-> FALSE,
                          found |-> WindowOf(requests, c)]
            /\ UNCHANGED <<rateVars, mw>>
       ELSE LET a == RateAfter(requests, admitted, c, now)
            IN  /\ requests' = a.requests
                /\ admitted' = a.admitted
                /\ IF a.allowed
                   THEN /\ mw' = [mw EXCEPT ![c] = @ + 1]
                        /\ result' = [op |-> "security_middleware", ip |-> c,
                                      request |-> q, kind |-> kind, forwarded |-> TRUE,
                                      status |-> 200, held |-> Len(Unexpired(c)),
                                      counted |-> WindowOf(a.requests, c)
                                                     = Append(Unexpired(c), now)]
                   ELSE /\ mw' = mw
                        /\ result' = [op |-> "security_middleware", ip |-> c,
                                      request |-> q, kind |-> kind, forwarded |-> FALSE,
                                      status |-> 429, held |-> Len(Unexpired(c)),
                                      counted |-> WindowOf(a.requests, c)
                                                     = Append(Unexpired(c), now)]
    /\ UNCHANGED <<now, storeVars, concVars>>

\* security_middleware(request, call_next) for request q of client c
security_middleware(c, q) == Dispatch(c, q, KindOf(q))

\* call_next returns for a request of client c, and the middleware returns its response
Respond(c) ==
    /\ mw[c] > 0
    /\ mw' = [mw EXCEPT ![c] = @ - 1]
    /\ UNCHANGED <<now, storeVars, rateVars, concVars, result>>

NextMw ==
    \/ TickRate
    \/ \E c \in Clients, q \in Probes : security_middleware(c, q)
    \/ \E c \in Clients : Respond(c)

SpecMw == Init /\ [][NextMw]_vars

\* the middleware serving one client, over all the requests of the model (SpecGate)
NextGate ==
    \/ TickRate
    \/ \E c \in Callers, q \in Requests : security_middleware(c, q)
    \/ \E c \in Callers : Respond(c)

SpecGate == Init /\ [][NextGate]_vars

(***************************************************************************)
(* is_malicious_request called on its own (SpecScan).                      *)
(***************************************************************************)
\* the arguments of the calls: paths a browser and a scanner ask for, query
\* strings and user agents, the empty ones (the defaults) among them
ScanPaths ==
    {"/api/chat", "/wp-admin/install.php", "/static/app.js", "/.env",
     "/robots.txt", "/robots.txt.bak", "/API/V2/Users"}
ScanQueries == {"", "a=1", "a=1&b=2", "q=<script>", "id=1 UNION  ALL SELECT x"}
ScanAgents == {"", "Mozilla/5.0", "sqlmap/1.0", "curl/8.0", "Nmap Scripting Engine"}

\* a call is about to be made with the arguments of result
InitScan ==
    /\ now = 0
    /\ heap = <<>>
    /\ ip_reputations = [c \in Clients |-> NoObject]
    /\ request_history = [c \in Clients |-> <<>>]
    /\ requests = <<>>
    /\ admitted = [c \in Clients |-> <<>>]
    /\ mw = [c \in Clients |-> 0]
    /\ th = [t \in Threads |-> NoCall]
    /\ done = [c \in Clients |-> [calls |-> 0, violations |-> 0]]
    /\ result \in {[op |-> "request", request |-> Req(p, q, a)] :
                       p \in ScanPaths, q \in ScanQueries, a \in ScanAgents}

\* is_malicious_request(path, user_agent, query_params) returns
is_malicious_request_call ==
    /\ result.op = "request"
    /\ result' = [op |-> "is_malicious_request", request |-> result.request,
                  value |-> is_malicious_request(result.request.path,
                                                 result.request.user_agent,
                                                 result.request.query)]
    /\ UNCHANGED <<now, storeVars, rateVars, mw, concVars>>

NextScan == is_malicious_request_call

SpecScan == InitScan /\ [][NextScan]_vars

(***************************************************************************)
(* filter_content called from several threads at once (SpecConc), as the   *)
(* threaded server of app.py calls it.  ContentFilter takes no lock, so a  *)
(* thread can be preempted between any two of the steps below; a step is   *)
(* one read or one write of the shared store.                              *)
(***************************************************************************)
\* the calls begun that reach track_request, over all clients and threads
RECURSIVE Completed(_, _)
Completed(d, S) ==
    IF S = {} THEN 0
    ELSE LET x == CHOOSE y \in S : TRUE IN d[x].calls + Completed(d, S \ {x})

Running == {t \in Threads : th[t].pc # "idle"}

\* what filter_content returns to thread t, with the client's blacklist flag at
\* that moment
Returned(t, c, verdict, h, ipr) ==
    [op |-> "filter_content", thread |-> t, ip |-> c, allowed |-> verdict.allowed,
     verdict |-> verdict, blacklisted |-> IsBlacklistedIn(h, ipr, c)]

\* a thread enters filter_content(message, client_ip)
Call(t, c) ==
    /\ th[t].pc = "idle"
    /\ \A u \in Threads : u < t => th[u].pc # "idle"    \* the threads are interchangeable
    /\ Cardinality(Running) + Completed(done, Clients) < MaxCalls
    /\ th' = [th EXCEPT ![t] = [pc |-> "is_ip_blacklisted", ip |-> c]]
    /\ UNCHANGED <<now, storeVars, rateVars, mw, done, result>>

\* `if self.is_ip_blacklisted(client_ip): return False, FilterResult(...)`
CheckBlacklisted(t) ==
    /\ th[t].pc = "is_ip_blacklisted"
    /\ IF is_ip_blacklisted(th[t].ip)
       THEN /\ th' = [th EXCEPT ![t] = NoCall]
            /\ result' = Returned(t, th[t].ip,
                             FilterResult(FALSE, <<"IP blacklisted">>, 10, "blacklist", 0),
                             heap, ip_reputations)
       ELSE /\ th' = [th EXCEPT ![t].pc = "check_safety"]
            /\ UNCHANGED result
    /\ UNCHANGED <<now, storeVars, rateVars, mw, done>>

\* `safety_result = self.check_safety(message)`, the classifier answering s
SafetyCall(t, s) ==
    /\ th[t].pc = "check_safety"
    /\ LET safety_result == check_safety(s)
       IN  th' = [th EXCEPT ![t] =
                    IF ~safety_result.allowed
                    THEN [pc |-> "not_in", ip |-> th[t].ip, is_violation |-> TRUE,
                          verdict |-> safety_result]
                    ELSE [pc |-> "check_mahjong_relevance", ip |-> th[t].ip,
                          safety_result |-> safety_result]]
    /\ UNCHANGED <<now, storeVars, rateVars, mw, done, result>>

\* `relevance_result = self.check_mahjong_relevance(message)`, the classifier
\* answering r; the pair to return is fixed here
RelevanceCall(t, r) ==
    /\ th[t].pc = "check_mahjong_relevance"
    /\ LET safety_result == th[t].safety_result
           relevance_result == check_mahjong_relevance(r)
       IN  th' = [th EXCEPT ![t] =
                    IF ~relevance_result.allowed
                    THEN [pc |-> "not_in", ip |-> th[t].ip, is_violation |-> TRUE,
                          verdict |-> relevance_result]
                    ELSE [pc |-> "not_in", ip |-> th[t].ip, is_violation |-> FALSE,
                          verdict |->
                              FilterResult(TRUE, <<"Passed all content filters">>,
                                  Min(safety_result.confidence,
                                      relevance_result.confidence),
                                  "complete",
                                  safety_result.tokens_used
                                      + relevance_result.tokens_used)]]
    /\ UNCHANGED <<now, storeVars, rateVars, mw, done, result>>

\* track_request: `now = datetime.now()` and `if client_ip not in self.ip_reputations`
NotIn(t) ==
    /\ th[t].pc = "not_in"
    /\ th' = [th EXCEPT ![t] =
                 [pc |-> IF Known(ip_reputations, th[t].ip) THEN "rep" ELSE "new",
                  ip |-> th[t].ip, is_violation |-> th[t].is_violation,
                  verdict |-> th[t].verdict, at |-> now]]
    /\ UNCHANGED <<now, storeVars, rateVars, mw, done, result>>

\* `self.ip_reputations[client_ip] = IPReputation(first_seen=now)`
New(t) ==
    /\ th[t].pc = "new"
    /\ heap' = Append(heap, IPReputation(th[t].at))
    /\ ip_reputations' = [ip_reputations EXCEPT ![th[t].ip] = Len(heap) + 1]
    /\ th' = [th EXCEPT ![t].pc = "rep"]
    /\ UNCHANGED <<now, request_history, rateVars, mw, done, result>>

\* `rep = self.ip_reputations[client_ip]` and the read of rep.total_requests
LoadTotal(t) ==
    /\ th[t].pc = "rep"
    /\ LET o == ip_reputations[th[t].ip]
       IN  th' = [th EXCEPT ![t] =
                    [pc |-> "total_requests", ip |-> th[t].ip,
                     is_violation |-> th[t].is_violation, verdict |-> th[t].verdict,
                     at |-> th[t].at, rep |-> o, tmp |-> heap[o].total_requests]]
    /\ UNCHANGED <<now, storeVars, rateVars, mw, done, result>>

\* the write of `rep.total_requests += 1`
StoreTotal(t) ==
    /\ th[t].pc = "total_requests"
    /\ heap' = [heap EXCEPT ![th[t].rep].total_requests = th[t].tmp + 1]
    /\ th' = [th EXCEPT ![t].pc = IF th[t].is_violation THEN "bad_requests"
                                  ELSE "request_history"]
    /\ UNCHANGED <<now, ip_reputations, request_history, rateVars, mw, done, result>>

\* the read of `rep.bad_requests += 1`
LoadBad(t) ==
    /\ th[t].pc = "bad_requests"
    /\ th' = [th EXCEPT ![t].pc = "last_violation",
                        ![t].tmp = heap[th[t].rep].bad_requests]
    /\ UNCHANGED <<now, storeVars, rateVars, mw, done, result>>

\* the write of `rep.bad_requests += 1`, and `rep.last_violation = now`
StoreBad(t) ==
    /\ th[t].pc = "last_violation"
    /\ heap' = [heap EXCEPT ![th[t].rep].bad_requests = th[t].tmp + 1,
                            ![th[t].rep].last_violation = th[t].at]
    /\ th' = [th EXCEPT ![t].pc = "blacklist_threshold"]
    /\ UNCHANGED <<now, ip_reputations, request_history, rateVars, mw, done, result>>

\* `if rep.bad_requests >= self.blacklist_threshold and not rep.blacklisted: ...`
Threshold(t) ==
    /\ th[t].pc = "blacklist_threshold"
    /\ heap' = IF ShouldBlacklist(heap[th[t].rep])
               THEN [heap EXCEPT ![th[t].rep].blacklisted = TRUE,
                                 ![th[t].rep].blacklist_reason = ExceededReason]
               ELSE heap
    /\ th' = [th EXCEPT ![t].pc = "request_history"]
    /\ UNCHANGED <<now, ip_reputations, request_history, rateVars, mw, done, result>>

\* the history lines of track_request; track_request returns, and filter_content
\* returns its pair
Return(t) ==
    /\ th[t].pc = "request_history"
    /\ LET c == th[t].ip
       IN  /\ request_history' = [request_history EXCEPT ![c] = HistoryAfter(@, th[t].at)]
           /\ done' = [done EXCEPT ![c].calls = @ + 1,
                                   ![c].violations =
                                       IF th[t].is_violation THEN @ + 1 ELSE @]
           /\ result' = Returned(t, c, th[t].verdict, heap, ip_reputations)
    /\ th' = [th EXCEPT ![t] = NoCall]
    /\ UNCHANGED <<now, heap, ip_reputations, rateVars, mw>>

NextConc ==
    \/ \E t \in Threads, c \in Callers : Call(t, c)
    \/ \E t \in Threads : CheckBlacklisted(t)
    \/ \E t \in Threads, s \in SafetyResponses : SafetyCall(t, s)
    \/ \E t \in Threads, r \in RelevanceResponses : RelevanceCall(t, r)
    \/ \E t \in Threads : NotIn(t)
    \/ \E t \in Threads : New(t)
    \/ \E t \in Threads : LoadTotal(t)
    \/ \E t \in Threads : StoreTotal(t)
    \/ \E t \in Threads : LoadBad(t)
    \/ \E t \in Threads : StoreBad(t)
    \/ \E t \in Threads : Threshold(t)
    \/ \E t \in Threads : Return(t)

SpecConc == Init /\ [][NextConc]_vars

(***************************************************************************)
(* Two clients served at the same time, each by its own thread (SpecIso):  *)
(* the calls made for one client follow one another, the steps of the two  *)
(* threads interleave.                                                     *)
(***************************************************************************)
\* the client each thread serves
ClientOf == (1 :> "ip1") @@ (2 :> "ip2")
IsoThreads == DOMAIN ClientOf

\* no call for client c is under way
Idle(c) == \A t \in IsoThreads : ClientOf[t] = c => th[t].pc = "idle"

\* thread t enters filter_content(message, client_ip) for its client; NumThreads
\* calls are made in all
CallAs(t) ==
    /\ th[t].pc = "idle"
    /\ Cardinality(Running) + Completed(done, Clients) < NumThreads
    /\ th' = [th EXCEPT ![t] = [pc |-> "is_ip_blacklisted", ip |-> ClientOf[t]]]
    /\ UNCHANGED <<now, storeVars, rateVars, mw, done, result>>

NextIso ==
    \/ \E t \in IsoThreads : CallAs(t)
    \/ \E t \in IsoThreads : CheckBlacklisted(t)
    \/ \E t \in IsoThreads, s \in {Answer(SAFE, 3), Answer(<<"M","a","y","b","e">>, 3)} :
           SafetyCall(t, s)
    \/ \E t \in IsoThreads, r \in {Answer(RELEVANT, 3)} : RelevanceCall(t, r)
    \/ \E t \in IsoThreads : NotIn(t)
    \/ \E t \in IsoThreads : New(t)
    \/ \E t \in IsoThreads : LoadTotal(t)
    \/ \E t \in IsoThreads : StoreTotal(t)
    \/ \E t \in IsoThreads : LoadBad(t)
    \/ \E t \in IsoThreads : StoreBad(t)
    \/ \E t \in IsoThreads : Threshold(t)
    \/ \E t \in IsoThreads : Return(t)
    \/ \E c \in Clients : Idle(c) /\ is_allowed(c)
    \/ \E c \in Clients, r \in Reasons : Idle(c) /\ manually_blacklist_ip(c, r)
    \/ \E c \in Clients, r \in Reasons : Idle(c) /\ unblacklist_ip(c, r)

SpecIso == Init /\ [][NextIso]_vars

(***************************************************************************)
(* The chat endpoints (SpecChat): chat_with_ai of main.py and chat of      *)
(* app.py, each with a content filter configured.  filter_content is       *)
(* synchronous and chat_with_ai awaits nothing after reading the upload,   *)
(* so a request is one step.  The admin endpoints blacklist and            *)
(* unblacklist clients in between.                                         *)
(***************************************************************************)
\* the parameters filter_content takes after self
FilterParams == 2
\* the arguments both endpoints pass: message, client_ip, image_data
ChatArgs == 3

\* the upload: none, a file whose content type is no image, an image
Images == {"none", "not an image", "image"}
\* assess_quality: is_acceptable, not is_acceptable, or it raises
Qualities == {"acceptable", "poor", "raise"}
\* llm_provider.chat: a response, or it raises
Generations == {"ok", "raise"}

\* the classifiers' answers to the endpoints' requests: one passing and one
\* rejecting answer per stage
ChatSafetyResponses == {Answer(SAFE, 3), Answer(<<"M","a","y","b","e">>, 3)}
ChatRelevanceResponses == {Answer(RELEVANT, 3), Answer(<<"N","o">>, 3)}

\* a call the handler makes, and whether the image goes with it
Made(fn, image_data) == [fn |-> fn, image_data |-> image_data]

\* content_filter.filter_content(...) called with nargs arguments: Python raises
\* TypeError before the body runs unless nargs is the number of parameters
Invoke(nargs, h, ipr, hist, c, s, r, t) ==
    IF nargs # FilterParams
    THEN [raised |-> TRUE, error |-> "TypeError",
          store |-> [heap |-> h, ipr |-> ipr, hist |-> hist]]
    ELSE [raised |-> FALSE] @@ FilterContent(h, ipr, hist, c, s, r, t)

\* `except Exception` around the quality check: logged, the image is allowed
QualityRaised == [proceed |-> TRUE]

\* mutant: an image that is not acceptable goes on
PoorQuality_Passes == [proceed |-> TRUE]

\* `if not quality_result.is_acceptable: raise HTTPException(400, detail={...})`
PoorQuality ==
    [proceed |-> FALSE, status |-> 400, detail |-> "Poor image quality",
     payload |-> {"error", "message", "issues", "recommendations", "quality_summary"}]

\* the image-quality gate of chat_with_ai
QualityGate(image, quality) ==
    IF image # "image" \/ quality = "acceptable" THEN [proceed |-> TRUE]
    ELSE IF quality = "poor" THEN PoorQuality
    ELSE QualityRaised

\* the HTTPException chat_with_ai raises for a rejected request, by stage
Rejection(stage) ==
    IF stage = "blacklist"
    THEN [status |-> 503, detail |-> "Service temporarily unavailable"]
    ELSE IF stage = "safety"
    THEN [status |-> 400, detail |-> "Please ensure your message is appropriate"]
    ELSE IF stage = "relevance"
    THEN [status |-> 400, detail |-> "This service is specifically for Mahjong"]
    ELSE [status |-> 400, detail |-> "Unable to process your request"]

\* what a handler answers: the store after it, the response, the calls made and
\* how the moderation pipeline ended ("not reached", "raised", or its stage)
Answered(store, status, detail, payload, calls, moderation) ==
    [store |-> store, status |-> status, detail |-> detail, payload |-> payload,
     calls |-> calls, moderation |-> moderation]

\* `llm_provider.chat(message, image_data)` and the response built from it
Generate(store, calls, image_data, llm, moderation) ==
    Answered(store, IF llm = "ok" THEN 200 ELSE 500,
             IF llm = "ok" THEN "response" ELSE "LLM provider error", {},
             Append(calls, Made("llm.chat", image_data)), moderation)

\* the calls of chat_with_ai up to and with the moderation call
CallsMade(image) ==
    IF image = "image"
    THEN <<Made("assess_quality", TRUE), Made("filter_content", TRUE)>>
    ELSE <<Made("filter_content", FALSE)>>

\* chat_with_ai from the moderation call f on
Moderated(f, calls, image_data, llm) ==
    IF f.raised
    THEN \* `except Exception: pass`: the request goes on
         Generate(f.store, calls, image_data, llm, "raised")
    ELSE IF ~f.allowed
    THEN Answered(f.store, Rejection(f.verdict.filter_stage).status,
                  Rejection(f.verdict.filter_stage).detail, {}, calls,
                  f.verdict.filter_stage)
    ELSE Generate(f.store, calls, image_data, llm, f.verdict.filter_stage)

\* chat_with_ai when the quality gate stops the request
Stopped(gate, store) ==
    Answered(store, gate.status, gate.detail, gate.payload,
             <<Made("assess_quality", TRUE)>>, "not reached")

\* chat_with_ai of main.py for client c
ChatWithAi(h, ipr, hist, c, image, quality, s, r, llm, t) ==
    IF image = "not an image"
    THEN Answered([heap |-> h, ipr |-> ipr, hist |-> hist], 400,
                  "File must be an image", {}, <<>>, "not reached")
    ELSE IF ~QualityGate(image, quality).proceed
    THEN Stopped(QualityGate(image, quality), [heap |-> h, ipr |-> ipr, hist |-> hist])
    ELSE Moderated(Invoke(ChatArgs, h, ipr, hist, c, s, r, t), CallsMade(image),
                   image = "image", llm)

\* chat of app.py from the moderation call f on
ModeratedApp(f, calls, image_data, llm) ==
    IF f.raised
    THEN \* the handler's own `except Exception`
         Answered(f.store, 500, "Internal server error", {}, calls, "raised")
    ELSE IF ~f.allowed
    THEN Answered(f.store, 403, "Content not allowed", {"reason", "filter_stage"},
                  calls, f.verdict.filter_stage)
    ELSE IF llm = "ok"
    THEN Generate(f.store, calls, image_data, llm, f.verdict.filter_stage)
    ELSE Answered(f.store, 500, "Internal server error", {},
                  Append(calls, Made("llm.chat", image_data)), f.verdict.filter_stage)

\* chat of app.py for client c
Chat(h, ipr, hist, c, message, image_data, s, r, llm, t) ==
    IF ~message
    THEN Answered([heap |-> h, ipr |-> ipr, hist |-> hist], 400, "Message is required",
                  {}, <<>>, "not reached")
    ELSE ModeratedApp(Invoke(ChatArgs, h, ipr, hist, c, s, r, t),
                      <<Made("filter_content", image_data)>>, image_data, llm)

\* a handler's answer a to a request of client c takes effect
Served(a, op, c, image, quality) ==
    /\ heap' = a.store.heap
    /\ ip_reputations' = a.store.ipr
    /\ request_history' = a.store.hist
    /\ result' = [op |-> op, ip |-> c, image |-> image, quality |-> quality,
                  blacklisted |-> is_ip_blacklisted(c),
                  status |-> a.status, detail |-> a.detail, payload |-> a.payload,
                  calls |-> a.calls, moderation |-> a.moderation]

\* POST /api/chat of main.py
chat_with_ai(c, image, quality, s, r, llm) ==
    /\ Served(ChatWithAi(heap, ip_reputations, request_history, c, image, quality,
                         s, r, llm, now),
              "chat_with_ai", c, image, quality)
    /\ UNCHANGED <<now, rateVars, mw, concVars>>

\* POST /api/chat of app.py; it has no quality gate
chat(c, message, image_data, s, r, llm) ==
    /\ Served(Chat(heap, ip_reputations, request_history, c, message, image_data,
                   s, r, llm, now),
              "chat", c, IF image_data THEN "image" ELSE "none", "not assessed")
    /\ UNCHANGED <<now, rateVars, mw, concVars>>

NextChat ==
    \/ Tick
    \/ \E c \in Callers, image \in Images, quality \in Qualities,
          s \in ChatSafetyResponses, r \in ChatRelevanceResponses, llm \in Generations :
           chat_with_ai(c, image, quality, s, r, llm)
    \/ \E c \in Callers, message \in BOOLEAN, image_data \in BOOLEAN,
          s \in ChatSafetyResponses, r \in ChatRelevanceResponses, llm \in Generations :
           chat(c, message, image_data, s, r, llm)
    \/ \E c \in Clients, r \in Reasons : manually_blacklist_ip(c, r)
    \/ \E c \in Clients, r \in Reasons : unblacklist_ip(c, r)

SpecChat == Init /\ [][NextChat]_vars

\* the two components of one process, called for one client in any order: the
\* limiter by the middleware, the store by the endpoint and the admin operations
NextBoth ==
    \/ Tick
    \/ \E c \in Callers : is_allowed(c)
    \/ \E c \in Callers, v \in BOOLEAN : track_request(c, v)
    \/ \E c \in Callers, r \in Reasons : manually_blacklist_ip(c, r)
    \/ \E c \in Callers, r \in Reasons : unblacklist_ip(c, r)
    \/ \E c \in Callers, s \in ChatSafetyResponses, r \in ChatRelevanceResponses :
           filter_content(c, s, r)

SpecBoth == Init /\ [][NextBoth]_vars

(***************************************************************************)
(* POST /api/chat of main.py behind the middleware, the request with its   *)
(* headers and its peer address (SpecKey).                                 *)
(***************************************************************************)
\* a request: the X-Forwarded-For and X-Real-IP headers ("" when absent) and
\* request.client.host
Headers(forwarded_for, real_ip, host) ==
    [forwarded_for |-> forwarded_for, real_ip |-> real_ip, host |-> host]

\* the requests of the model: sent directly, through a proxy that sets either
\* header, and with a forwarded chain of two addresses
KeyRequests ==
    {Headers(f, r, h) : f \in {"", "ip2", " ip1 , ip2"}, r \in {"", "ip2"}, h \in Clients}

\* s.split(",")[0]
RECURSIVE FirstField(_)
FirstField(s) ==
    IF Len(s) = 0 \/ SubSeq(s, 1, 1) = "," THEN ""
    ELSE SubSeq(s, 1, 1) \o FirstField(SubSeq(s, 2, Len(s)))

\* str.strip() of a header value
RECURSIVE StripText(_)
StripText(s) ==
    IF Len(s) = 0 THEN ""
    ELSE IF SubSeq(s, 1, 1) \in Whitespace THEN StripText(SubSeq(s, 2, Len(s)))
    ELSE IF SubSeq(s, Len(s), Len(s)) \in Whitespace
    THEN StripText(SubSeq(s, 1, Len(s) - 1))
    ELSE s

\* get_client_ip(request) of security.py
get_client_ip(q) ==
    IF q.forwarded_for # "" THEN StripText(FirstField(q.forwarded_for))
    ELSE IF q.real_ip # "" THEN q.real_ip
    ELSE q.host

\* `client_ip = request.client.host if request.client else "unknown"` of chat_with_ai
PeerHost(q) == q.host

\* one POST /api/chat with a message and no image: the middleware applies the rate
\* limiter to the request and, when it is admitted, call_next runs chat_with_ai.
\* The result tells the client_ip of each.
Serve(q, s, r, llm) ==
    LET a == RateAfter(requests, admitted, get_client_ip(q), now)
        ans == ChatWithAi(heap, ip_reputations, request_history, PeerHost(q),
                          "none", "acceptable", s, r, llm, now)
    IN  /\ requests' = a.requests
        /\ admitted' = a.admitted
        /\ IF a.allowed
           THEN /\ heap' = ans.store.heap
                /\ ip_reputations' = ans.store.ipr
                /\ request_history' = ans.store.hist
                /\ result' = [op |-> "POST /api/chat", request |-> q,
                              rate_limiter |-> <<get_client_ip(q)>>,
                              filter_content |-> <<PeerHost(q)>>,
                              status |-> ans.status, moderation |-> ans.moderation]
           ELSE /\ UNCHANGED storeVars
                /\ result' = [op |-> "POST /api/chat", request |-> q,
                              rate_limiter |-> <<get_client_ip(q)>>,
                              filter_content |-> <<>>,
                              status |-> 429, moderation |-> "not reached"]
        /\ UNCHANGED <<now, mw, concVars>>

NextKey ==
    \/ TickRate
    \/ \E q \in KeyRequests, llm \in Generations :
           Serve(q, Answer(SAFE, 3), Answer(RELEVANT, 3), llm)

SpecKey == Init /\ [][NextKey]_vars

(***************************************************************************)
(* ImageQualityChecker.assess_quality (SpecQuality).  An upload is given by *)
(* what the code measures on it: the length of its base64 text, whether it *)
(* decodes, its dimensions, and what each check computes (or that the      *)
(* check's OpenCV call fails).  Scores are integers.                       *)
(***************************************************************************)
\* ImageQualityChecker.__init__: the quality thresholds
blur_threshold == 100
min_brightness == 30
max_brightness == 240
min_contrast == 20
min_resolution == <<300, 300>>
max_file_size == 10 * 1024 * 1024

\* a measurement: the value computed, or the OpenCV call raising
Measured(v) == [raised |-> FALSE, value |-> v]
Fails == [raised |-> TRUE]

\* base64 lengths on both sides of the size limit: 0.75 * 13981013 = 10485759.75
Lengths == {400, 13981013, 13981014}

\* the uploads that decode, with measurements on both sides of every threshold
Decoded ==
    [decodes : {TRUE}, len : Lengths,
     width : {299, 300}, height : {299, 300},
     laplacian_var : {Measured(99), Measured(100), Fails},
     mean_brightness : {Measured(29), Measured(30), Measured(240), Measured(241), Fails},
     std : {Measured(19), Measured(20), Fails},
     potential_tiles : {Measured(0), Measured(1), Fails}]

\* the uploads base64.b64decode or Image.open rejects
Corrupt == [decodes : {FALSE}, len : Lengths]

Uploads == Decoded \cup Corrupt

None == [none |-> TRUE]

\* decode_base64_image: every exception is caught and None returned
decode_base64_image(u) == IF u.decodes THEN u ELSE None

\* check_blur: (blur_score, is_sharp), (0.0, False) when it fails
check_blur(image) ==
    IF image.laplacian_var.raised THEN [score |-> 0, ok |-> FALSE]
    ELSE [score |-> image.laplacian_var.value,
          ok |-> image.laplacian_var.value >= blur_threshold]

\* check_brightness: (brightness_score, is_well_lit)
check_brightness(image) ==
    IF image.mean_brightness.raised THEN [score |-> 0, ok |-> FALSE]
    ELSE [score |-> image.mean_brightness.value,
          ok |-> /\ min_brightness <= image.mean_brightness.value
                 /\ image.mean_brightness.value <= max_brightness]

\* check_contrast: (contrast_score, has_good_contrast)
check_contrast(image) ==
    IF image.std.raised THEN [score |-> 0, ok |-> FALSE]
    ELSE [score |-> image.std.value, ok |-> image.std.value >= min_contrast]

\* check_resolution: ((width, height), is_sufficient)
check_resolution(image) ==
    [score |-> <<image.width, image.height>>,
     ok |-> image.width >= min_resolution[1] /\ image.height >= min_resolution[2]]

\* detect_tile_regions: (potential_tile_count, likely_has_tiles)
detect_tile_regions(image) ==
    IF image.potential_tiles.raised THEN [score |-> 0, ok |-> FALSE]
    ELSE [score |-> image.potential_tiles.value, ok |-> image.potential_tiles.value >= 1]

\* `estimated_size > self.max_file_size`, estimated_size = len(base64_image) * 0.75
TooLarge(len) == 3 * len > 4 * max_file_size

Max(a, b) == IF a >= b THEN a ELSE b

\* issues.append(...) / recommendations.append(...) when a check failed
Noted(failed, text) == IF failed THEN <<text>> ELSE <<>>

\* mutant: the checks stop at the first one that failed
IssuesOf_ShortCircuit(image, len) ==
    IF TooLarge(len) THEN <<"Image too large">>
    ELSE IF ~check_resolution(image).ok THEN <<"Resolution too low">>
    ELSE IF ~check_blur(image).ok THEN <<"Image is blurry">>
    ELSE IF ~check_brightness(image).ok
    THEN IF check_brightness(image).score < min_brightness
         THEN <<"Image too dark">> ELSE <<"Image overexposed">>
    ELSE IF ~check_contrast(image).ok THEN <<"Poor contrast">>
    ELSE IF ~detect_tile_regions(image).ok THEN <<"No clear tile shapes detected">>
    ELSE <<>>

\* the issues of an image that decoded, in the order of the checks
IssuesOf(image, len) ==
    Noted(TooLarge(len), "Image too large")
    \o Noted(~check_resolution(image).ok, "Resolution too low")
    \o Noted(~check_blur(image).ok, "Image is blurry")
    \o Noted(~check_brightness(image).ok,
             IF check_brightness(image).score < min_brightness
             THEN "Image too dark" ELSE "Image overexposed")
    \o Noted(~check_contrast(image).ok, "Poor contrast")
    \o Noted(~detect_tile_regions(image).ok, "No clear tile shapes detected")

\* the recommendation appended with each issue
Advice ==
    [x \in {"Image too large", "Resolution too low", "Image is blurry", "Image too dark",
            "Image overexposed", "Poor contrast", "No clear tile shapes detected"} |->
        CASE x = "Image too large" -> "Please compress the image or take a smaller photo"
          [] x = "Resolution too low" -> "Please use at least 300x300 resolution"
          [] x = "Image is blurry" -> "Please hold the camera steady"
          [] x = "Image too dark" -> "Please take the photo in better lighting or use flash"
          [] x = "Image overexposed" -> "Please reduce lighting"
          [] x = "Poor contrast" -> "Please ensure good lighting"
          [] x = "No clear tile shapes detected" -> "Please ensure Mahjong tiles are clearly visible"]

\* mutant: an image with tile shapes is accepted when every other check but one passes
IsAcceptable_Lenient(is_sharp, is_well_lit, has_contrast, res_ok, has_tiles, size_ok) ==
    /\ has_tiles /\ size_ok /\ res_ok
    /\ \/ is_sharp /\ is_well_lit
       \/ is_sharp /\ has_contrast
       \/ is_well_lit /\ has_contrast

\* `is_sharp and is_well_lit and has_contrast and res_ok and has_tiles and
\*  estimated_size <= self.max_file_size`
IsAcceptable(is_sharp, is_well_lit, has_contrast, res_ok, has_tiles, size_ok) ==
    is_sharp /\ is_well_lit /\ has_contrast /\ res_ok /\ has_tiles /\ size_ok

\* ImageQualityResult(...)
ImageQualityResult(ok, blur, brightness, contrast, sharpness, issues, recommendations) ==
    [is_acceptable |-> ok, blur_score |-> blur, brightness_score |-> brightness,
     contrast_score |-> contrast, sharpness_score |-> sharpness, issues |-> issues,
     recommendations |-> recommendations]

\* assess_quality when decode_base64_image returned None
DecodeFailed ==
    ImageQualityResult(FALSE, 0, 0, 0, 0, <<"Failed to decode image">>,
                       <<"Please upload a valid image file (JPEG, PNG, etc.)">>)

\* assess_quality on an image that decoded, len the length of its base64 text
Assessed(image, len) ==
    ImageQualityResult(
        IsAcceptable(check_blur(image).ok, check_brightness(image).ok,
                     check_contrast(image).ok, check_resolution(image).ok,
                     detect_tile_regions(image).ok, ~TooLarge(len)),
        check_blur(image).score, check_brightness(image).score,
        check_contrast(image).score,
        Min(100, Max(0, (check_blur(image).score * 100) \div blur_threshold)),
        IssuesOf(image, len),
        [i \in 1..Len(IssuesOf(image, len)) |-> Advice[IssuesOf(image, len)[i]]])

\* mutant: the size check is made before the image is decoded
AssessQuality_SizeFirst(u) ==
    IF decode_base64_image(u) = None
    THEN [DecodeFailed EXCEPT
            !.issues = Noted(TooLarge(u.len), "Image too large") \o @,
            !.recommendations = Noted(TooLarge(u.len), Advice["Image too large"]) \o @]
    ELSE Assessed(decode_base64_image(u), u.len)

\* ImageQualityChecker.assess_quality(base64_image)
AssessQuality(u) ==
    IF decode_base64_image(u) = None THEN DecodeFailed
    ELSE Assessed(decode_base64_image(u), u.len)

\* an upload arrives: the base64 text handed to assess_quality
InitQuality ==
    /\ now = 0
    /\ heap = <<>>
    /\ ip_reputations = [c \in Clients |-> NoObject]
    /\ request_history = [c \in Clients |-> <<>>]
    /\ requests = <<>>
    /\ admitted = [c \in Clients |-> <<>>]
    /\ mw = [c \in Clients |-> 0]
    /\ th = [t \in Threads |-> NoCall]
    /\ done = [c \in Clients |-> [calls |-> 0, violations |-> 0]]
    /\ result \in {[op |-> "upload", image |-> u] : u \in Uploads}

\* image_quality_checker.assess_quality(base64_image) on the upload
assess_quality ==
    /\ result.op = "upload"
    /\ result' = [op |-> "assess_quality", image |-> result.image,
                  value |-> AssessQuality(result.image)]
    /\ UNCHANGED <<now, storeVars, rateVars, mw, concVars>>

NextQuality == assess_quality

SpecQuality == InitQuality /\ [][NextQuality]_vars

(***************************************************************************)
(* Properties.                                                             *)
(***************************************************************************)
BadOf(c) == IF Known(ip_reputations, c) THEN Rep(c).bad_requests ELSE 0
TotalOf(c) == IF Known(ip_reputations, c) THEN Rep(c).total_requests ELSE 0

\* x occurs in sequence q
Occurs(x, q) == \E i \in 1..Len(q) : q[i] = x

\* C1: for every client, bad_requests <= total_requests in every state reached by
\* track_request (violation or not), manually_blacklist_ip and unblacklist_ip calls.
C1_BadAtMostTotal ==
    \A c \in Clients :
        Known(ip_reputations, c) => Rep(c).bad_requests <= Rep(c).total_requests

\* a client with violating and clean requests, just unblacklisted
C1_Witness ==
    \E c \in Clients :
        /\ result.op = "unblacklist_ip" /\ result.ip = c
        /\ BadOf(c) >= 1 /\ TotalOf(c) > BadOf(c)

\* C2: the track_request call that brings bad_requests to the threshold leaves the
\* client blacklisted, and a blacklisted client stays blacklisted over every step
\* that is not unblacklist_ip for that client.
C2_BlacklistedUntilUnblacklist ==
    [][\A c \in Clients :
          /\ (/\ BadOf(c) < blacklist_threshold
              /\ BadOf(c)' >= blacklist_threshold
              /\ \E v \in BOOLEAN : track_request(c, v))
                 => is_ip_blacklisted(c)'
          /\ (is_ip_blacklisted(c) /\ ~is_ip_blacklisted(c)')
                 => \E r \in Reasons : unblacklist_ip(c, r)
      ]_vars

\* a client blacklisted by the threshold whose last call was a non-violating request
C2_Witness ==
    \E c \in Clients :
        /\ result = [op |-> "track_request", ip |-> c, is_violation |-> FALSE]
        /\ BadOf(c) >= blacklist_threshold
        /\ is_ip_blacklisted(c)
        /\ Rep(c).blacklist_reason = ExceededReason

\* C3: an is_allowed call returns true exactly when fewer than max_requests calls
\* of that client were admitted in the window_seconds before it (so from an empty
\* window the first N calls of a span return true and the (N+1)th false), and
\* the span of the last window_seconds never holds more than max_requests
\* admitted calls.
C3_AdmitsExactlyN ==
    \A c \in Clients :
        /\ Len(admitted[c]) <= max_requests
        /\ (result.op = "is_allowed" /\ result.ip = c /\ result.at = now)
              => LET before == IF result.allowed THEN Len(admitted[c]) - 1
                               ELSE Len(admitted[c])
                 IN  result.allowed <=> (before < max_requests)

\* the (N+1)th call of a span has been rejected
C3_Witness ==
    \E c \in Clients :
        /\ result.op = "is_allowed" /\ result.ip = c /\ ~result.allowed
        /\ result.at = now
        /\ Len(admitted[c]) = max_requests
        /\ admitted[c][1] < now

\* C4: a call for a client with max_requests recorded admissions is admitted
\* exactly when now >= oldest + window_seconds; the admitted call leaves no entry
\* as old as now - window_seconds and records now.
C4_AdmittedOnceOldestExpires ==
    [][\A c \in Clients :
          (/\ Len(WindowOf(requests, c)) = max_requests
           /\ is_allowed(c))
             => LET oldest == Head(requests[c])
                IN  /\ result'.allowed <=> (now >= oldest + window_seconds)
                    /\ result'.allowed =>
                          /\ \A i \in 1..Len(requests'[c]) :
                                 requests'[c][i] > now - window_seconds
                          /\ requests'[c][Len(requests'[c])] = now
      ]_vars

\* a call made exactly window_seconds after the oldest of N recorded admissions
\* has been admitted
C4_Witness ==
    /\ result.op = "is_allowed" /\ result.allowed
    /\ result.held = max_requests
    /\ result.oldest = result.at - window_seconds

\* C5: a rejected call leaves the rate limiter as it was (nothing recorded, the
\* window the same), and an admitted call leaves the entries of the window that
\* are younger than window_seconds followed by one new entry, now.
C5_RejectedNotRecorded ==
    [][\A c \in Clients :
          is_allowed(c) =>
             IF result'.allowed
             THEN /\ requests'[c] =
                        Append(SelectSeq(WindowOf(requests, c),
                                         LAMBDA x : x > now - window_seconds), now)
                  /\ admitted'[c] = Append(admitted[c], now)
             ELSE /\ requests' = requests
                  /\ admitted' = admitted
      ]_vars

\* a call made later than the oldest entry of a full window has been rejected
C5_Witness ==
    \E c \in Clients :
        /\ result.op = "is_allowed" /\ result.ip = c /\ ~result.allowed
        /\ Len(requests[c]) = max_requests
        /\ Head(requests[c]) < result.at

\* C6: with requests of one client in flight at the same time, in every order
\* of their turns, the span of the last window_seconds never holds more than
\* max_requests admitted calls, and the window holds every one of them (no
\* admission is lost from it) after at most max_requests entries in all.
C6_NoOverAdmission ==
    \A c \in Clients :
        LET w == WindowOf(requests, c)
            a == admitted[c]
        IN  /\ Len(a) <= max_requests
            /\ Len(w) <= max_requests
            /\ Len(a) <= Len(w)
            /\ a = SubSeq(w, Len(w) - Len(a) + 1, Len(w))

\* max_requests requests of one client await call_next together, all admitted
\* in one span, and one more request of that client has been rejected
C6_Witness ==
    \E c \in Clients :
        /\ mw[c] = max_requests
        /\ result.op = "security_middleware" /\ result.ip = c
        /\ ~result.forwarded /\ result.status = 429
        /\ Len(admitted[c]) = max_requests

\* C7: no filter_content call returns allowed=true once another call's violation
\* has brought the client to the threshold: when a call returns allowed=true the
\* client is not blacklisted.
C7_NoPassOnceBlacklisted ==
    (result.op = "filter_content" /\ result.allowed) => ~result.blacklisted

\* C8: when the track_request calls begun have all returned, k of them for a
\* client, that client's total_requests is k and its bad_requests is the number of
\* them with is_violation=true.
C8_NoLostUpdate ==
    (Running = {}) =>
        \A c \in Clients :
            done[c].calls > 0 =>
                /\ Known(ip_reputations, c)
                /\ TotalOf(c) = done[c].calls
                /\ BadOf(c) = done[c].violations

\* C9: check_safety on a raising classifier call returns allowed = false, stage
\* safety, confidence 0.0 and 0 tokens, and a filter_content call whose safety
\* classification raised returns that verdict and is not allowed.
C9_SafetyFailsClosed ==
    /\ \A e \in Errors :
          LET v == check_safety(Raise(e))
          IN  ~v.allowed /\ v.filter_stage = "safety"
              /\ v.confidence = 0 /\ v.tokens_used = 0
    /\ (result.op = "filter_content" /\ Occurs("Safety check failed", result.log))
          => /\ ~result.allowed
             /\ ~result.verdict.allowed
             /\ result.verdict.filter_stage = "safety"
             /\ result.verdict.confidence = 0
             /\ result.verdict.tokens_used = 0

\* a filter_content call whose safety classification raised has returned
C9_Witness ==
    /\ result.op = "filter_content"
    /\ Occurs("Safety check failed", result.log)
    /\ result.calls = <<"safety", "track_request(violation)">>

\* C10: a filter_content call for a client that is not blacklisted, whose safety
\* stage passed and whose relevance classification raised, returns allowed = true
\* with stage complete and confidence 0.0, and records the request as no
\* violation: total_requests + 1, bad_requests unchanged.
C10_RelevanceFailsOpen ==
    [][\A c \in Clients, s \in SafetyResponses, e \in Errors :
          (/\ result'.op = "filter_content"
           /\ result'.ip = c
           /\ ~is_ip_blacklisted(c)
           /\ SafetyVerdict[s].allowed
           /\ filter_content(c, s, Raise(e)))
             => /\ result'.allowed
                /\ result'.verdict.allowed
                /\ result'.verdict.filter_stage = "complete"
                /\ result'.verdict.confidence = 0
                /\ BadOf(c)' = BadOf(c)
                /\ TotalOf(c)' = TotalOf(c) + 1
      ]_vars

\* a filter_content call whose relevance classification raised has returned
C10_Witness ==
    /\ result.op = "filter_content"
    /\ Occurs("Relevance check failed", result.log)
    /\ result.allowed
    /\ result.calls = <<"safety", "relevance", "track_request(clean)">>

\* the classifier answered `word`, in any letter case and with blanks around it
Says(resp, word) == resp.kind = "ok" /\ upper(strip(resp.content)) = word

\* a step of filter_content for client c that returned
Filtered(c) == result'.op = "filter_content" /\ result'.ip = c

\* C11: for a client that is not blacklisted, a filter_content call whose safety
\* classifier answers SAFE and whose relevance classifier answers IRRELEVANT
\* returns allowed = false with stage relevance and adds exactly 1 to the
\* client's bad_requests.
C11_IrrelevantRejected ==
    [][\A c \in Callers, s \in SafetyResponses, r \in RelevanceResponses :
          (/\ Filtered(c)
           /\ Says(s, SAFE) /\ r.kind = "ok" /\ r.content = IRRELEVANT
           /\ ~is_ip_blacklisted(c)
           /\ filter_content(c, s, r))
             => /\ ~result'.allowed
                /\ result'.verdict.filter_stage = "relevance"
                /\ BadOf(c)' = BadOf(c) + 1
      ]_vars

\* C12: for a client that is not blacklisted, a filter_content call whose safety
\* classifier answers UNSAFE, in any letter case, returns allowed = false with
\* stage safety and records a violation: bad_requests + 1 and total_requests + 1.
C12_UnsafeRejected ==
    [][\A c \in Callers, s \in SafetyResponses, r \in RelevanceResponses :
          (/\ Filtered(c)
           /\ Says(s, UNSAFE)
           /\ ~is_ip_blacklisted(c)
           /\ filter_content(c, s, r))
             => /\ ~result'.allowed
                /\ result'.verdict.filter_stage = "safety"
                /\ BadOf(c)' = BadOf(c) + 1
                /\ TotalOf(c)' = TotalOf(c) + 1
      ]_vars

\* the tokens a classifier response reports
Reported(resp) == IF resp.usage = NoUsage THEN 0 ELSE resp.usage

\* C13: for a client that is not blacklisted, a filter_content call whose
\* classifiers answer SAFE and RELEVANT returns allowed = true with stage complete,
\* the sum of the two calls' token usage and the smaller of the two stage
\* confidences (0.9 both), and records one request that is no violation:
\* total_requests + 1, bad_requests unchanged.
C13_PassCombines ==
    [][\A c \in Callers :
          (Filtered(c) /\ ~is_ip_blacklisted(c)) =>
              \A s \in {Answer(SAFE, 3), Answer(<<" ","s","a","f","e","\n">>, NoUsage)},
                 r \in {Answer(RELEVANT, 3),
                        Answer(<<"r","e","l","e","v","a","n","t"," ">>, NoUsage)} :
                  filter_content(c, s, r)
                     => /\ result'.allowed
                        /\ result'.verdict.allowed
                        /\ result'.verdict.filter_stage = "complete"
                        /\ result'.verdict.tokens_used = Reported(s) + Reported(r)
                        /\ result'.verdict.confidence = 9
                        /\ result'.calls =
                               <<"safety", "relevance", "track_request(clean)">>
                        /\ TotalOf(c)' = TotalOf(c) + 1
                        /\ BadOf(c)' = BadOf(c)
      ]_vars

\* a call answered SAFE and RELEVANT, both answers reporting 3 tokens, has returned
C13_Witness ==
    /\ result.op = "filter_content"
    /\ result.allowed
    /\ result.verdict.filter_stage = "complete"
    /\ result.verdict.tokens_used = 6
    /\ result.verdict.confidence = 9
    /\ TotalOf(result.ip) >= 1

\* C14: a filter_content call for a client that is blacklisted when the call
\* begins returns allowed = false with stage blacklist and 0 tokens, calls no
\* classifier and leaves the reputation store and the history as they were.
C14_BlacklistedUntouched ==
    [][\A c \in Callers :
          (/\ Filtered(c)
           /\ Known(ip_reputations, c) /\ Rep(c).blacklisted
           /\ \E s \in SafetyResponses, r \in RelevanceResponses :
                  filter_content(c, s, r))
             => /\ ~result'.allowed
                /\ result'.verdict =
                       FilterResult(FALSE, <<"IP blacklisted">>, 10, "blacklist", 0)
                /\ result'.calls = <<>>
                /\ storeVars' = storeVars
      ]_vars

\* a client blacklisted for its violations has been turned away at the blacklist
\* stage, its counters where they were
C14_Witness ==
    /\ result.op = "filter_content"
    /\ result.verdict.filter_stage = "blacklist"
    /\ Known(ip_reputations, result.ip)
    /\ Rep(result.ip).blacklisted
    /\ Rep(result.ip).bad_requests = blacklist_threshold
    /\ Rep(result.ip).total_requests = blacklist_threshold

\* a step in which a filter_content call for client c returned: of the steps of
\* the pipeline, only filter_content sets such a result and leaves the clock
FilterStep(c) == Filtered(c) /\ now' = now

\* C15: in a filter_content call the blacklist check comes first and ends the call
\* for a blacklisted client; otherwise the safety classifier is called first, the
\* relevance classifier only after a safety verdict of allowed = true, and
\* track_request exactly once, after the last classifier call.
C15_StageOrder ==
    [][\A c \in Callers :
          /\ FilterStep(c) =>
                LET calls == result'.calls
                    n == Len(calls)
                IN  IF is_ip_blacklisted(c)
                    THEN calls = <<>> /\ TotalOf(c)' = TotalOf(c)
                    ELSE /\ n \in {2, 3}
                         /\ calls[1] = "safety"
                         /\ n = 3 => calls[2] = "relevance"
                         /\ calls[n] \in {"track_request(violation)",
                                          "track_request(clean)"}
                         /\ TotalOf(c)' = TotalOf(c) + 1
          /\ (FilterStep(c) /\ Occurs("relevance", result'.calls)) =>
                \A s \in SafetyResponses :
                    ~check_safety(s).allowed =>
                        \A r \in RelevanceResponses : ~filter_content(c, s, r)
      ]_vars

\* a call rejected at the relevance stage has returned, after both classifier calls
C15_Witness ==
    /\ result.op = "filter_content"
    /\ result.calls = <<"safety", "relevance", "track_request(violation)">>
    /\ result.verdict.filter_stage = "relevance"

\* the handler made a call of function fn
Called(fn) == \E i \in 1..Len(result.calls) : result.calls[i].fn = fn

\* the stages at which the moderation pipeline returns its pair
Stages == {"blacklist", "safety", "relevance", "complete"}

\* C16: a request of chat_with_ai with an image, from a client that is blacklisted,
\* is rejected at the blacklist stage with the generic 503, and the image-quality
\* gate does not decide its outcome.
C16_BlacklistBeforeQuality ==
    (result.op = "chat_with_ai" /\ result.image = "image" /\ result.blacklisted)
       => /\ result.status = 503
          /\ result.moderation = "blacklist"
          /\ result.detail # "Poor image quality"

\* C17: when assess_quality raises, the request is not rejected for image quality
\* and goes on, the image attached, to the moderation stages: the pipeline runs
\* on it and ends at one of its stages.
C17_QualityFailsOpen ==
    (result.op = "chat_with_ai" /\ result.image = "image" /\ result.quality = "raise")
       => /\ result.detail # "Poor image quality"
          /\ Called("filter_content")
          /\ \A i \in 1..Len(result.calls) : result.calls[i].image_data
          /\ result.moderation \in Stages

\* C18: a request whose image is assessed as not acceptable ends in a rejection
\* that carries the issues and the recommendations, with no classifier call, no
\* generation call and the reputation store as it was.
C18_PoorImageRejected ==
    [][\A c \in Callers :
          (/\ result'.op = "chat_with_ai" /\ result'.ip = c
           /\ result'.image = "image" /\ result'.quality = "poor"
           /\ \E s \in ChatSafetyResponses, r \in ChatRelevanceResponses,
                 llm \in Generations :
                  chat_with_ai(c, "image", "poor", s, r, llm))
             => /\ result'.status = 400
                /\ {"issues", "recommendations"} \subseteq result'.payload
                /\ result'.calls = <<Made("assess_quality", TRUE)>>
                /\ result'.moderation = "not reached"
                /\ storeVars' = storeVars
      ]_vars

\* a request with an image that is not acceptable has been rejected, its client
\* known to the reputation store
C18_Witness ==
    /\ result.op = "chat_with_ai"
    /\ result.image = "image" /\ result.quality = "poor"
    /\ result.status = 400
    /\ Known(ip_reputations, result.ip)

\* C19: with a content filter configured, a chat endpoint makes the generation
\* call only for a request the moderation pipeline allowed.
C19_GenerationOnlyIfAllowed ==
    (result.op \in {"chat_with_ai", "chat"} /\ Called("llm.chat"))
       => result.moderation = "complete"

\* C20: every invocation of the moderation pipeline by a chat endpoint returns a
\* pair at one of the four stages; no exception comes out of it.
C20_PipelineAlwaysReturns ==
    (result.op \in {"chat_with_ai", "chat"} /\ Called("filter_content"))
       => result.moderation \in Stages

\* C21: what a chat endpoint answers to a request from a blacklisted client that
\* reached the moderation call is the generic "unavailable": status 503, the detail
\* "Service temporarily unavailable", and neither the reason nor the stage in it.
C21_BlacklistGeneric ==
    (/\ result.op \in {"chat_with_ai", "chat"}
     /\ result.blacklisted
     /\ Called("filter_content"))
       => /\ result.status = 503
          /\ result.detail = "Service temporarily unavailable"
          /\ result.payload \cap {"reason", "filter_stage"} = {}

\* the blacklist_reason stored for client c, <<>> when it has no record
ReasonOf(c) == IF Known(ip_reputations, c) THEN Rep(c).blacklist_reason ELSE <<>>

\* C22: manually_blacklist_ip(c, reason) makes is_ip_blacklisted(c) true and stores
\* the reason, creating the record of an unseen client; unblacklist_ip(c, reason)
\* makes is_ip_blacklisted(c) false and, for a client that has a record, stores the
\* reason with the prefix "Unblacklisted: ", while for an unseen client it changes
\* nothing and creates no record.  Both leave total_requests and bad_requests of
\* every client as they were, whatever the counters are.
C22_ManualSetsAndClears ==
    [][\A c \in Clients, reason \in Reasons :
          /\ (result'.op = "manually_blacklist_ip" /\ manually_blacklist_ip(c, reason))
                => /\ is_ip_blacklisted(c)'
                   /\ ReasonOf(c)' = <<reason>>
                   /\ \A d \in Clients : /\ TotalOf(d)' = TotalOf(d)
                                         /\ BadOf(d)' = BadOf(d)
          /\ (result'.op = "unblacklist_ip" /\ unblacklist_ip(c, reason))
                => /\ ~is_ip_blacklisted(c)'
                   /\ IF Known(ip_reputations, c)
                      THEN ReasonOf(c)' = <<"Unblacklisted: ", reason>>
                      ELSE storeVars' = storeVars
                   /\ \A d \in Clients : /\ TotalOf(d)' = TotalOf(d)
                                         /\ BadOf(d)' = BadOf(d)
      ]_vars

\* a client blacklisted by the threshold has been unblacklisted, its counters still
\* at the threshold, while a client that never made a request is blacklisted by hand
C22_Witness ==
    \E c, d \in Clients :
        /\ result = [op |-> "unblacklist_ip", ip |-> c]
        /\ BadOf(c) >= blacklist_threshold
        /\ ~is_ip_blacklisted(c)
        /\ ReasonOf(c) = <<"Unblacklisted: ", "Manual blacklist">>
        /\ is_ip_blacklisted(d)
        /\ TotalOf(d) = 0
        /\ ReasonOf(d) = <<"Manual blacklist">>

\* C22 as stated: after unblacklist_ip(c, reason) the prefixed reason is stored as
\* the blacklist_reason of c, for every client, seen or unseen.
C22_AsStated ==
    [][\A c \in Clients, reason \in Reasons :
          (result'.op = "unblacklist_ip" /\ unblacklist_ip(c, reason))
             => /\ ~is_ip_blacklisted(c)'
                /\ Known(ip_reputations', c)
                /\ ReasonOf(c)' = <<"Unblacklisted: ", reason>>
      ]_vars

\* C23: in a run without manual blacklist and unblacklist calls, a client is
\* blacklisted exactly when its bad_requests is at least blacklist_threshold, in
\* every state: nobody is blacklisted early, and a request that is no violation
\* never blacklists.
C23_BlacklistedIffThreshold ==
    \A c \in Clients :
        /\ is_ip_blacklisted(c) <=> BadOf(c) >= blacklist_threshold
        /\ Known(ip_reputations, c) =>
              (Rep(c).blacklisted => Rep(c).blacklist_reason = ExceededReason)

\* one client has reached the threshold and is blacklisted while another, with a
\* request on record and fewer violations, is not
C23_Witness ==
    \E c, d \in Clients :
        /\ BadOf(c) = blacklist_threshold
        /\ is_ip_blacklisted(c)
        /\ TotalOf(d) >= 1
        /\ BadOf(d) < blacklist_threshold
        /\ ~is_ip_blacklisted(d)

\* the read operations of the store
ReadOps == {"get_ip_stats", "get_system_stats", "export_blacklist", "is_ip_blacklisted"}

\* what read operation op returns for client c in the current store
ReadNow(op, c) ==
    CASE op = "get_ip_stats" -> GetIpStats(heap, ip_reputations, c)
      [] op = "get_system_stats" -> GetSystemStats(heap, ip_reputations)
      [] op = "export_blacklist" -> ExportBlacklist(heap, ip_reputations)
      [] op = "is_ip_blacklisted" -> is_ip_blacklisted(c)

\* C24: get_ip_stats, get_system_stats, export_blacklist and is_ip_blacklisted leave
\* the reputation store as the call found it, creating no record for an unseen
\* client (for which is_ip_blacklisted is false and get_ip_stats the "new" zero
\* shape); so the same call made again, with no mutation in between, returns the
\* same result.
C24_ReadsChangeNothing ==
    result.op \in ReadOps =>
        /\ storeVars = result.found
        /\ ReadNow(result.op, result.ip) = result.value
        /\ (result.ip \in Clients /\ ~Known(result.found[2], result.ip)) =>
              /\ ~Known(ip_reputations, result.ip)
              /\ result.op = "is_ip_blacklisted" => result.value = FALSE
              /\ result.op = "get_ip_stats" =>
                    result.value = [status |-> "new", requests |-> 0, violations |-> 0]

\* get_ip_stats has answered the "new" shape for a client that is still unseen,
\* while the store holds the record of another client
C24_Witness ==
    /\ result.op = "get_ip_stats"
    /\ result.value = [status |-> "new", requests |-> 0, violations |-> 0]
    /\ ~Known(ip_reputations, result.ip)
    /\ \E d \in Clients : TotalOf(d) >= 1

\* the clients export_blacklist returns
Exported == DOMAIN ExportBlacklist(heap, ip_reputations)

\* C25: in every state the keys of export_blacklist() are exactly the clients for
\* which is_ip_blacklisted is true, and get_system_stats().blacklisted_ips is their
\* number.
C25_ExportIsBlacklist ==
    /\ Exported = {c \in Clients : is_ip_blacklisted(c)}
    /\ GetSystemStats(heap, ip_reputations).blacklisted_ips = Cardinality(Exported)
    /\ result.op = "export_blacklist" => DOMAIN result.value = Exported
    /\ result.op = "get_system_stats" => result.value.blacklisted_ips = Cardinality(Exported)

\* export_blacklist has returned one client, blacklisted, while another client
\* that was blacklisted and then unblacklisted is left out
C25_Witness ==
    \E c, d \in Clients :
        /\ result.op = "export_blacklist"
        /\ DOMAIN result.value = {c}
        /\ is_ip_blacklisted(c)
        /\ Known(ip_reputations, d) /\ ~is_ip_blacklisted(d)
        /\ ReasonOf(d) = <<"Unblacklisted: ", "Manual blacklist">>

\* C26: after every is_allowed(c) call, made at time result.at of a clock that never
\* goes back, the window of c holds only timestamps strictly greater than
\* result.at - window_seconds, oldest first, and at most max_requests of them.
C26_WindowAfterCall ==
    result.op = "is_allowed" =>
        LET w == WindowOf(requests, result.ip) IN
            /\ \A i \in 1..Len(w) : w[i] > result.at - window_seconds /\ w[i] <= result.at
            /\ \A i, j \in 1..Len(w) : i < j => w[i] <= w[j]
            /\ Len(w) <= max_requests

\* a call has been admitted into a window that is now full, with entries of two
\* different times, after an older entry expired and was removed
C26_Witness ==
    /\ result.op = "is_allowed" /\ result.allowed
    /\ LET w == WindowOf(requests, result.ip) IN
           /\ Len(w) = max_requests
           /\ w[1] < w[Len(w)]
           /\ result.oldest # NoTime
           /\ result.oldest < w[1]

\* the call has returned for an upload that decoded
AssessedImage == result.op = "assess_quality" /\ result.image.decodes

\* the six checks of an image, each by its own threshold
ChecksOf(u) ==
    <<u.laplacian_var.raised = FALSE /\ u.laplacian_var.value >= blur_threshold,
      /\ u.mean_brightness.raised = FALSE
      /\ u.mean_brightness.value >= min_brightness
      /\ u.mean_brightness.value <= max_brightness,
      u.std.raised = FALSE /\ u.std.value >= min_contrast,
      u.width >= min_resolution[1] /\ u.height >= min_resolution[2],
      u.potential_tiles.raised = FALSE /\ u.potential_tiles.value >= 1,
      3 * u.len <= 4 * max_file_size>>

\* C27: for an image that decodes, is_acceptable is the conjunction of the six
\* checks (sharp, brightness in range, contrast, resolution, a tile shape, size
\* within max_file_size): one failed check makes the image unacceptable, whatever
\* the others give, and each failed check is listed in the issues.
C27_AcceptableIsConjunction ==
    AssessedImage =>
        /\ result.value.is_acceptable = (\A i \in 1..6 : ChecksOf(result.image)[i])
        /\ \A i \in 1..6 : ~ChecksOf(result.image)[i] => ~result.value.is_acceptable
        /\ Len(result.value.issues)
              = Cardinality({i \in 1..6 : ~ChecksOf(result.image)[i]})
        /\ Len(result.value.recommendations) = Len(result.value.issues)

\* an image that fails the contrast check alone has been found unacceptable
C27_Witness ==
    /\ AssessedImage
    /\ {i \in 1..6 : ~ChecksOf(result.image)[i]} = {3}
    /\ ~result.value.is_acceptable
    /\ result.value.issues = <<"Poor contrast">>

\* C28: when the bytes cannot be decoded assess_quality returns (it does not
\* raise) is_acceptable false, the one issue "Failed to decode image", one
\* recommendation and the four scores 0; no other check adds an issue.
C28_DecodeFailure ==
    (result.op = "assess_quality" /\ ~result.image.decodes) =>
        /\ ~result.value.is_acceptable
        /\ result.value.issues = <<"Failed to decode image">>
        /\ Len(result.value.recommendations) = 1
        /\ result.value.blur_score = 0
        /\ result.value.brightness_score = 0
        /\ result.value.contrast_score = 0
        /\ result.value.sharpness_score = 0

\* the call has returned for an upload that does not decode and is over the size
\* limit
C28_Witness ==
    /\ result.op = "assess_quality"
    /\ ~result.image.decodes
    /\ TooLarge(result.image.len)
    /\ ~result.value.is_acceptable

\* what is_malicious_request returns for each request of the model
Verdicts == [q \in Requests |-> is_malicious_request(q.path, q.user_agent, q.query)]

\* the last request the middleware handled: what the Pattern Gate says of it
Hostile == Verdicts[result.request].is_malicious

\* C29: a request whose path is on the allow-list is never answered 404 by the
\* Pattern Gate, whatever its query string and user agent, and it goes through the
\* Rate Limiter: with the client's window full it is answered 429 and not
\* forwarded, otherwise it is counted and forwarded.
C29_AllowListSkipsGateOnly ==
    (result.op = "security_middleware" /\ result.request.path \in AllowList) =>
        /\ result.status # 404
        /\ result.held >= max_requests
              => result.status = 429 /\ ~result.forwarded /\ ~result.counted
        /\ result.held < max_requests => result.forwarded /\ result.counted

\* a request to /api/chat whose query and user agent the Pattern Gate would reject
\* has been answered 429, the window of its client full
C29_Witness ==
    /\ result.op = "security_middleware"
    /\ result.request = Req("/api/chat", "q=<script>", "sqlmap/1.0")
    /\ Hostile
    /\ result.held = max_requests
    /\ result.status = 429

\* C30: for a path that is not on the allow-list the Pattern Gate runs before the
\* Rate Limiter: a request it classifies malicious is answered 404, is not
\* forwarded and leaves the window of its client as it was, also when the window
\* is full; only a request that passes the gate is counted by the Rate Limiter or
\* answered 429 by it.
C30_GateBeforeLimiter ==
    (result.op = "security_middleware" /\ result.request.path \notin AllowList) =>
        /\ Hostile => /\ result.status = 404
                      /\ ~result.forwarded
                      /\ ~result.counted
                      /\ WindowOf(requests, result.ip) = result.found
        /\ ~Hostile => /\ result.status = (IF result.held >= max_requests THEN 429 ELSE 200)
                       /\ result.forwarded = (result.status = 200)
                       /\ result.counted = result.forwarded
        /\ (result.counted \/ result.status = 429) => ~Hostile

\* a scanner's probe has been answered 404 while the window of its client was
\* full, and the window is as the call found it
C30_Witness ==
    /\ result.op = "security_middleware"
    /\ result.request.path = "/wp-admin/install.php"
    /\ result.status = 404
    /\ result.held = max_requests
    /\ WindowOf(requests, result.ip) = result.found
    /\ Len(result.found) = max_requests

\* C31: rate limiting and reputation are independent. A call of is_allowed leaves
\* the reputation store as it was and its answer and the window it leaves are
\* those of the window and the clock alone, so a blacklisted client is counted
\* and limited like any other and a rejection by the limiter is no violation; and
\* track_request, manually_blacklist_ip, unblacklist_ip and filter_content leave
\* every rate-limit window as it was.
StoreOps == {"track_request", "manually_blacklist_ip", "unblacklist_ip", "filter_content"}

C31_LimiterAndStoreIndependent ==
    [][ /\ (result'.op = "is_allowed" /\ now' = now) =>
              /\ UNCHANGED storeVars
              /\ result'.allowed = IsAllowed(WindowOf(requests, result'.ip), now).allowed
              /\ WindowOf(requests', result'.ip)
                     = IsAllowed(WindowOf(requests, result'.ip), now).window
        /\ result'.op \in StoreOps => UNCHANGED requests ]_vars

\* a blacklisted client that never violated is rejected by the limiter, its window
\* full, and the store has counted requests of it
C31_Witness ==
    /\ result.op = "is_allowed"
    /\ ~result.allowed
    /\ Len(WindowOf(requests, result.ip)) = max_requests
    /\ Known(ip_reputations, result.ip)
    /\ Rep(result.ip).blacklisted
    /\ Rep(result.ip).bad_requests = 0
    /\ Rep(result.ip).total_requests > 0

\* C32: is_malicious_request returns true iff the path matches a pattern of the
\* catalogue, or the query is not empty and matches one, or the user agent is
\* not empty and matches a scanner signature; the reason names the first of path,
\* query and user agent that matched and is empty when none did; the path
\* /wp-admin/install.php is malicious and /api/chat with no query and no user
\* agent is not.
PathHit(q) == AnyMatch(MALICIOUS_PATTERNS, q.path)
QueryHit(q) == q.query # "" /\ AnyMatch(MALICIOUS_PATTERNS, q.query)
AgentHit(q) == q.user_agent # "" /\ AnyMatch(bot_patterns, q.user_agent)

C32_MaliciousIffSomeInputMatches ==
    result.op = "is_malicious_request" =>
        LET q == result.request
            v == result.value
        IN  /\ v.is_malicious <=> (PathHit(q) \/ QueryHit(q) \/ AgentHit(q))
            /\ PathHit(q) => v.reason[1] = "Malicious path pattern detected: "
            /\ (~PathHit(q) /\ QueryHit(q)) =>
                   v.reason = <<"Malicious query parameter detected: ", q.query>>
            /\ (~PathHit(q) /\ ~QueryHit(q) /\ AgentHit(q)) =>
                   v.reason = <<"Suspicious user agent: ", q.user_agent>>
            /\ ~v.is_malicious => v.reason = <<"">>
            /\ q.path = "/wp-admin/install.php" => v.is_malicious
            /\ q = Req("/api/chat", "", "") => ~v.is_malicious

\* a call whose path, query and user agent all match: the reason names the path
C32_Witness ==
    /\ result.op = "is_malicious_request"
    /\ result.request = Req("/wp-admin/install.php", "q=<script>", "sqlmap/1.0")
    /\ result.value = [is_malicious |-> TRUE,
                       reason |-> <<"Malicious path pattern detected: ",
                                    "/wp-admin/install.php">>]

\* C33: in every result of assess_quality is_acceptable is true iff the issues
\* list is empty, and issues and recommendations have the same length; for an
\* image that decoded every failing check (size, resolution, blur, brightness,
\* contrast, tile shapes) has its one issue in the list and no passing check has
\* one, so a check is made also after an earlier one failed.
IssueNames ==
    <<{"Image is blurry"}, {"Image too dark", "Image overexposed"}, {"Poor contrast"},
      {"Resolution too low"}, {"No clear tile shapes detected"}, {"Image too large"}>>

Listed(names, issues) == Cardinality({k \in 1..Len(issues) : issues[k] \in names})

C33_IssuesMatchFailedChecks ==
    result.op = "assess_quality" =>
        /\ result.value.is_acceptable <=> (result.value.issues = <<>>)
        /\ Len(result.value.recommendations) = Len(result.value.issues)
        /\ result.image.decodes =>
               \A i \in 1..6 :
                   Listed(IssueNames[i], result.value.issues)
                       = IF ChecksOf(result.image)[i] THEN 0 ELSE 1

\* an image that fails every check: six issues and six recommendations
C33_Witness ==
    /\ AssessedImage
    /\ \A i \in 1..6 : ~ChecksOf(result.image)[i]
    /\ Len(result.value.issues) = 6
    /\ Len(result.value.recommendations) = 6
    /\ ~result.value.is_acceptable

\* C34: a classifier answer that contains neither expected token gets confidence
\* 0.5 and is a rejection at its stage, counted as a violation of the client; an
\* answer that contains an expected token gets confidence 0.9; and the confidence
\* of every verdict filter_content returns is 0.0, 0.5, 0.9 or 1.0 (confidences
\* are written in tenths).
HasToken(resp, words) ==
    resp.kind = "ok" /\ \E w \in words : Contains(w, upper(strip(resp.content)))

Ambiguous(resp, words) == resp.kind = "ok" /\ ~HasToken(resp, words)

\* the answers of the model with neither token, and the safety answers that pass
AmbiguousSafety == {s \in SafetyResponses : Ambiguous(s, {SAFE, UNSAFE})}
AmbiguousRelevance == {r \in RelevanceResponses : Ambiguous(r, {RELEVANT, IRRELEVANT})}
PassingSafety == {s \in SafetyResponses : SafetyVerdict[s].allowed}

\* the stage verdict of every answer with a token has confidence 0.9, of every
\* answer without one 0.5
TokenConfidence ==
    /\ \A s \in SafetyResponses :
          /\ HasToken(s, {SAFE, UNSAFE}) => SafetyVerdict[s].confidence = 9
          /\ s \in AmbiguousSafety => SafetyVerdict[s].confidence = 5
    /\ \A r \in RelevanceResponses :
          /\ HasToken(r, {RELEVANT, IRRELEVANT}) => RelevanceVerdict[r].confidence = 9
          /\ r \in AmbiguousRelevance => RelevanceVerdict[r].confidence = 5

C34_AmbiguousRejected ==
    [][ /\ result'.op = "filter_content" =>
              /\ result'.verdict.confidence \in {0, 5, 9, 10}
              /\ TokenConfidence
        /\ \A c \in Callers :
              (Filtered(c) /\ ~is_ip_blacklisted(c)) =>
                  /\ \A s \in AmbiguousSafety, r \in RelevanceResponses :
                         filter_content(c, s, r) =>
                             /\ ~result'.allowed
                             /\ result'.verdict.filter_stage = "safety"
                             /\ result'.verdict.confidence = 5
                             /\ BadOf(c)' = BadOf(c) + 1
                  /\ \A s \in PassingSafety, r \in AmbiguousRelevance :
                         filter_content(c, s, r) =>
                             /\ ~result'.allowed
                             /\ result'.verdict.filter_stage = "relevance"
                             /\ result'.verdict.confidence = 5
                             /\ BadOf(c)' = BadOf(c) + 1
      ]_vars

\* a call was rejected at the safety stage with confidence 0.5 and counted
C34_Witness ==
    /\ result.op = "filter_content"
    /\ ~result.allowed
    /\ result.verdict.filter_stage = "safety"
    /\ result.verdict.confidence = 5
    /\ result.calls = <<"safety", "track_request(violation)">>
    /\ BadOf(result.ip) >= 1

\* C35: unblacklist_ip leaves bad_requests and total_requests as they were.  A
\* client that is not blacklisted although its bad_requests is at or above the
\* threshold stays so through every request that is no violation, and its next
\* violation blacklists it again; and a client is in that state only after
\* unblacklist_ip, whose reason it still carries.
Forgiven(c) == BadOf(c) >= blacklist_threshold /\ ~is_ip_blacklisted(c)

\* a step of track_request for client c
TrackedStep(c) ==
    /\ result'.op = "track_request"
    /\ result'.ip = c
    /\ TotalOf(c)' = TotalOf(c) + 1

C35_UnblacklistKeepsCounters ==
    [][\A c \in Clients :
          /\ (result'.op = "unblacklist_ip" /\ result'.ip = c) =>
                 /\ BadOf(c)' = BadOf(c)
                 /\ TotalOf(c)' = TotalOf(c)
                 /\ ~is_ip_blacklisted(c)'
          /\ (Forgiven(c) /\ TrackedStep(c)) =>
                 IF result'.is_violation
                 THEN is_ip_blacklisted(c)' /\ ReasonOf(c)' = ExceededReason
                 ELSE Forgiven(c)'
          /\ Forgiven(c)' => ReasonOf(c)'[1] = "Unblacklisted: "
      ]_vars

\* a client unblacklisted at the threshold made a request that was no violation
\* and is still not blacklisted
C35_Witness ==
    \E c \in Clients :
        /\ result = [op |-> "track_request", ip |-> c, is_violation |-> FALSE]
        /\ Forgiven(c)
        /\ TotalOf(c) > BadOf(c)

\* C36: track_request writes blacklist_reason only when it takes the client from
\* not blacklisted to blacklisted, and then writes the threshold reason; for a
\* client that is already blacklisted, by hand or by the threshold, a
\* track_request call changes neither blacklisted nor blacklist_reason.
C36_ReasonWrittenOnTransition ==
    [][\A c \in Clients :
          TrackedStep(c) =>
              /\ is_ip_blacklisted(c) =>
                     /\ is_ip_blacklisted(c)'
                     /\ ReasonOf(c)' = ReasonOf(c)
              /\ ReasonOf(c)' # ReasonOf(c) =>
                     /\ ~is_ip_blacklisted(c)
                     /\ is_ip_blacklisted(c)'
                     /\ ReasonOf(c)' = ExceededReason
      ]_vars

\* a client blacklisted by hand has reached the threshold by its violations and
\* still carries the reason given by hand
C36_Witness ==
    \E c \in Clients :
        /\ result = [op |-> "track_request", ip |-> c, is_violation |-> TRUE]
        /\ BadOf(c) >= blacklist_threshold
        /\ is_ip_blacklisted(c)
        /\ ReasonOf(c) = <<"Manual blacklist">>

\* C37: a filter_content call whose safety classifier call raised is rejected at
\* the safety stage and tracked as a violation like an UNSAFE answer, and it
\* blacklists the client when it brings bad_requests to the threshold; a call whose
\* relevance classifier call raised passes and is tracked as no violation.
Raising(S) == {x \in S : x.kind = "raise"}

RecordOf(h, ipr, c) == IF Known(ipr, c) THEN <<RepOf(h, ipr, c)>> ELSE <<>>

Untouched(b) ==
    /\ WindowOf(requests', b) = WindowOf(requests, b)
    /\ (b \in DOMAIN requests') = (b \in DOMAIN requests)
    /\ RecordOf(heap', ip_reputations', b) = RecordOf(heap, ip_reputations, b)
    /\ request_history'[b] = request_history[b]

C38_OtherClientsUntouched ==
    [][ /\ \A t \in IsoThreads :
              th'[t] # th[t] => \A b \in Clients \ {ClientOf[t]} : Untouched(b)
        /\ (th' = th /\ result'.op \in {"is_allowed", "manually_blacklist_ip",
                                         "unblacklist_ip"}) =>
              \A b \in Clients \ {result'.ip} : Untouched(b) ]_vars

\* while the thread of ip1 is inside track_request, between reading and writing
\* bad_requests, ip2 was blacklisted by hand and counted by the rate limiter
C38_Witness ==
    /\ th[1].pc = "last_violation"
    /\ result = [op |-> "manually_blacklist_ip", ip |-> "ip2"]
    /\ is_ip_blacklisted("ip2")
    /\ Len(WindowOf(requests, "ip2")) = 1
    /\ WindowOf(requests, "ip1") = <<>>
    /\ ~is_ip_blacklisted("ip1")

\* C39: a request is keyed by the same client identifier in the rate limiter and
\* in the reputation store: the client_ip the middleware hands to is_allowed is
\* the client_ip chat_with_ai hands to filter_content, whatever forwarded headers
\* the request carries.
C39_OneKeyPerRequest ==
    (result.op = "POST /api/chat" /\ result.filter_content # <<>>) =>
        result.filter_content = result.rate_limiter

=============================================================================
